---- MODULE Spec2Model ----
(***************************************************************************)
(* AI request orchestration core of nanogen-studio                         *)
(* (src/services/ai-core.ts): error classifier, response normalizer,       *)
(* retry orchestrator, video job poller and marketing-copy helper.         *)
(*                                                                         *)
(* Strings are modelled as sequences of text fragments (tokens).  A        *)
(* fragment keeps its case; toLowerCase maps it to its lower-case form and *)
(* String.includes(k) asks whether some lower-cased fragment contains k.   *)
(* An absent (undefined / empty) status or credential is 0 / "".           *)
(***************************************************************************)
EXTENDS Integers, Sequences, FiniteSets, TLC

\* ------------------------------------------------------------------------
\* Bounds of the model
\* ------------------------------------------------------------------------
\* Largest maxRetries a caller passes to generate.
MaxRetriesBound == 3
\* Largest number of fragments of a raw failure message.
MaxMsgLen == 2

\* Longest list of parts in a candidate handed to parseResponse.
MaxParts == 2

\* Longest list of candidates in a response handed to parseResponse.
MaxCandidates == 2

\* Longest list of images handed to executeRequest.
MaxImages == 2

\* Largest maxRetries of a generate call that runs beside another one.
MaxConcRetries == 1

\* ------------------------------------------------------------------------
\* Program constants
\* ------------------------------------------------------------------------
DEFAULT_RETRIES == 3
MAX_POLLS == 60

\* await this.sleep(5000): the pause between two polls, in milliseconds.
POLL_INTERVAL == 5000

\* ------------------------------------------------------------------------
\* Text
\* ------------------------------------------------------------------------
\* The substrings normalizeError looks for in the lower-cased message.
Keywords ==
  << "429", "quota", "exhausted", "api key", "unauthenticated",
     "permission denied", "billing", "location", "region",
     "safety", "blocked", "harmful", "not found",
     "overloaded", "busy", "capacity",
     "fetch", "network", "connection", "invalid argument", "image" >>

KeywordSet == { Keywords[i] : i \in 1..Len(Keywords) }

\* Fragments a raw provider message is built from: every keyword, two
\* fragments in another case, and two fragments containing no keyword.
Vocabulary ==
  Keywords \o << "QUOTA", "Billing", "teapot", "conflict" >>

\* String.prototype.toLowerCase on one fragment.
ToLowerCase(tok) ==
  CASE tok = "QUOTA" -> "quota"
    [] tok = "Billing" -> "billing"
    [] tok = "API key" -> "api key"
    [] tok = "NETWORK_ERROR:" -> "network_error:"
    [] tok = "INVALID_IMAGE:" -> "invalid_image:"
    [] tok = "PROMPT_BLOCKED:" -> "prompt_blocked:"
    [] tok = "GENERATION_BLOCKED:" -> "generation_blocked:"
    [] tok = "Unknown error" -> "unknown error"
    [] tok = "INVALID_API_KEY:" -> "invalid_api_key:"
    [] tok = "BILLING_REQUIRED:" -> "billing_required:"
    [] tok = "GEO_RESTRICTION:" -> "geo_restriction:"
    [] tok = "ACCESS_DENIED:" -> "access_denied:"
    [] tok = "SAFETY_VIOLATION:" -> "safety_violation:"
    [] tok = "MODEL_UNAVAILABLE:" -> "model_unavailable:"
    [] tok = "SYSTEM_OVERLOAD:" -> "system_overload:"
    [] tok = "INVALID_REQUEST:" -> "invalid_request:"
    [] tok = "GENAI_ERROR:" -> "genai_error:"
    [] tok = "API_KEY_MISSING:" -> "api_key_missing:"
    [] tok = "TIMEOUT:" -> "timeout:"
    [] tok = "ZERO_CANDIDATES:" -> "zero_candidates:"
    [] tok = "COPYRIGHT_BLOCK:" -> "copyright_block:"
    [] tok = "GENERATION_FAILED:" -> "generation_failed:"
    [] tok = "GENERATION_STOPPED:" -> "generation_stopped:"
    [] tok = "Generation throughput exceeded" -> "generation throughput exceeded"
    [] tok = "Project" -> "project"
    [] tok = "SAFETY" -> "safety"
    [] tok = "OTHER" -> "other"
    [] tok = "LANGUAGE" -> "language"
    [] tok = "Error" -> "error"
    [] OTHER -> tok

toLowerCase(msg) == [ i \in 1..Len(msg) |-> ToLowerCase(msg[i]) ]

\* The keywords a lower-case fragment contains as substrings.
KeywordsIn(tok) ==
  CASE tok \in KeywordSet -> {tok}
    [] tok = "network_error:" -> {"network"}
    [] tok = "invalid_image:" -> {"image"}
    [] tok = "imagery" -> {"image"}
    [] tok = "prompt_blocked:" -> {"blocked"}
    [] tok = "generation_blocked:" -> {"blocked"}
    [] tok = "safety_violation:" -> {"safety"}
    [] tok = "billing_required:" -> {"billing"}
    [] OTHER -> {}

\* String.prototype.includes on a message.
includes(msg, kw) == \E i \in 1..Len(msg) : kw \in KeywordsIn(msg[i])

\* ------------------------------------------------------------------------
\* Error taxonomy (shared/utils/errors): AppError subclasses
\* ------------------------------------------------------------------------
AppErr(cls, message, statusCode) ==
  [ t |-> "app", cls |-> cls, message |-> message, statusCode |-> statusCode ]

ApiError(message, statusCode) == AppErr("ApiError", message, statusCode)
AuthenticationError(message) == AppErr("AuthenticationError", message, 401)
SafetyError(message) == AppErr("SafetyError", message, 400)
RateLimitError == AppErr("RateLimitError", << "Generation throughput exceeded" >>, 429)

InstanceOfAppError(error) == error.t = "app"
InstanceOfApiError(error) ==
  error.t = "app" /\ error.cls \in { "ApiError", "RateLimitError" }

\* ------------------------------------------------------------------------
\* Raw failures: what a provider call, the JSON parser or the payload
\* assembly can throw.  shape "object" is an Error-like object with message,
\* status and response.status; "string" a thrown string; "null" a thrown
\* null / undefined.
\* ------------------------------------------------------------------------
RawFailure(shape, message, status, respStatus) ==
  [ t |-> "raw", shape |-> shape, message |-> message,
    status |-> status, respStatus |-> respStatus ]

\* error?.toString() of a thrown value without a usable message.
ToStringOf(error) ==
  IF error.shape = "string" THEN error.message ELSE << "Error" >>

\* const rawMessage = error?.message || error?.toString() || "Unknown error"
RawMessageOf(error) ==
  IF error.t = "app" THEN error.message
  ELSE IF error.shape = "null" THEN << "Unknown error" >>
  ELSE IF error.shape = "object" /\ error.message # << >> THEN error.message
  ELSE IF ToStringOf(error) # << >> THEN ToStringOf(error)
  ELSE << "Unknown error" >>

\* const status = error?.status || error?.response?.status  (0: undefined)
StatusOf(error) ==
  IF error.t = "app" \/ error.shape # "object" THEN 0
  ELSE IF error.status # 0 THEN error.status
  ELSE error.respStatus

\* Rule 1 without its status test.
IsRateLimitByTextOnly(lowerMsg, status) ==
  includes(lowerMsg, "429") \/ includes(lowerMsg, "quota")
     \/ includes(lowerMsg, "exhausted")

\* 1. Rate limiting and quotas (429)
IsRateLimit(lowerMsg, status) ==
  status = 429 \/ includes(lowerMsg, "429") \/ includes(lowerMsg, "quota")
     \/ includes(lowerMsg, "exhausted")

\* 2. Authentication: invalid key (401)
IsInvalidKey(lowerMsg, status) ==
  status = 401 \/ includes(lowerMsg, "api key")
     \/ includes(lowerMsg, "unauthenticated")

\* 2. Authentication: forbidden (403)
IsForbidden(lowerMsg, status) ==
  status = 403 \/ includes(lowerMsg, "permission denied")

\* The 403 branch testing the region before billing.
ForbiddenErrorRegionFirst(lowerMsg) ==
  IF includes(lowerMsg, "location") \/ includes(lowerMsg, "region")
  THEN AuthenticationError(<< "GEO_RESTRICTION:", "region" >>)
  ELSE IF includes(lowerMsg, "billing")
  THEN AuthenticationError(<< "BILLING_REQUIRED:", "Project", "billing", "enabled" >>)
  ELSE AuthenticationError(<< "ACCESS_DENIED:", "project", "permissions" >>)

\* The sub-reason of the 403 branch: billing, region, generic.
ForbiddenError(lowerMsg) ==
  IF includes(lowerMsg, "billing")
  THEN AuthenticationError(<< "BILLING_REQUIRED:", "Project", "billing", "enabled" >>)
  ELSE IF includes(lowerMsg, "location") \/ includes(lowerMsg, "region")
  THEN AuthenticationError(<< "GEO_RESTRICTION:", "region" >>)
  ELSE AuthenticationError(<< "ACCESS_DENIED:", "project", "permissions" >>)

\* 3. Safety and policy
IsSafety(lowerMsg) ==
  includes(lowerMsg, "safety") \/ includes(lowerMsg, "blocked")
     \/ includes(lowerMsg, "harmful")

\* 4. Model availability (404)
IsModelMissing(lowerMsg, status) ==
  status = 404 \/ includes(lowerMsg, "not found")

\* Rule 5 taking every status from 500 up as a server failure.
IsOverloadAny5xx(lowerMsg, status) ==
  status >= 500 \/ includes(lowerMsg, "overloaded")
     \/ includes(lowerMsg, "busy") \/ includes(lowerMsg, "capacity")

\* 5. System instability (500/502/503/504)
IsOverload(lowerMsg, status) ==
  status \in {500, 502, 503, 504} \/ includes(lowerMsg, "overloaded")
     \/ includes(lowerMsg, "busy") \/ includes(lowerMsg, "capacity")

\* 6. Network / connectivity
IsNetwork(lowerMsg) ==
  includes(lowerMsg, "fetch") \/ includes(lowerMsg, "network")
     \/ includes(lowerMsg, "connection")

\* 7. Request format (400)
IsBadRequest(lowerMsg, status) ==
  status = 400 \/ includes(lowerMsg, "invalid argument")

\* The rules of normalizeError, first match first, on the extracted message
\* and status.
ClassifyRaw(rawMessage, status) ==
  LET lowerMsg == toLowerCase(rawMessage) IN
  IF IsRateLimit(lowerMsg, status) THEN RateLimitError
  ELSE IF IsInvalidKey(lowerMsg, status)
  THEN AuthenticationError(<< "INVALID_API_KEY:", "API key" >>)
  ELSE IF IsForbidden(lowerMsg, status) THEN ForbiddenError(lowerMsg)
  ELSE IF IsSafety(lowerMsg)
  THEN SafetyError(<< "SAFETY_VIOLATION:", "image", "safety" >>)
  ELSE IF IsModelMissing(lowerMsg, status)
  THEN ApiError(<< "MODEL_UNAVAILABLE:", "not found" >>, 404)
  ELSE IF IsOverload(lowerMsg, status)
  THEN ApiError(<< "SYSTEM_OVERLOAD:" >>, 503)
  ELSE IF IsNetwork(lowerMsg)
  THEN ApiError(<< "NETWORK_ERROR:", "connection" >>, 0)
  ELSE IF IsBadRequest(lowerMsg, status)
  THEN IF includes(lowerMsg, "image")
       THEN ApiError(<< "INVALID_IMAGE:", "image", "format", "size" >>, 400)
       ELSE ApiError(<< "INVALID_REQUEST:" >>, 400)
  ELSE ApiError(<< "GENAI_ERROR:" >> \o rawMessage,
                IF status # 0 THEN status ELSE 500)

\* normalizeError without the instanceof shortcut: an already classified
\* error is classified again from its message.
normalizeErrorReclassify(error) ==
  ClassifyRaw(RawMessageOf(error), StatusOf(error))

\* normalizeError(error)
normalizeError(error) ==
  IF InstanceOfAppError(error) THEN error
  ELSE ClassifyRaw(RawMessageOf(error), StatusOf(error))

\* ------------------------------------------------------------------------
\* Provider responses and the response normalizer
\* ------------------------------------------------------------------------
\* One content part: inline |-> TRUE for a part carrying inlineData, whose
\* data is the base64 payload ("" when empty or missing).
TextPart == [ inline |-> FALSE, data |-> "" ]
ImagePart(data) == [ inline |-> TRUE, data |-> data ]

Candidate(finishReason, parts) ==
  [ t |-> "candidate", finishReason |-> finishReason, parts |-> parts ]

\* GenerateContentResponse: promptFeedback.blockReason ("" when absent),
\* the candidate list and the aggregated text ("" when absent).
Response(blockReason, candidates, text) ==
  [ t |-> "response", blockReason |-> blockReason, candidates |-> candidates,
    text |-> text ]

Returned(value) == [ ok |-> TRUE, value |-> value ]
Thrown(error) == [ ok |-> FALSE, error |-> error ]

\* candidate.content?.parts.find(p => p.inlineData): index of the first
\* part with inlineData, 0 when there is none.
FindInlinePart(parts) ==
  IF \E i \in 1..Len(parts) : parts[i].inline
  THEN CHOOSE i \in 1..Len(parts) :
         parts[i].inline /\ \A j \in 1..(i - 1) : ~parts[j].inline
  ELSE 0

\* response.candidates?.[0] of a response without candidates.
UndefinedCandidate == [ t |-> "undefined", finishReason |-> "", parts |-> << >> ]

\* const candidate = response.candidates?.[0]
FirstCandidate(response) ==
  IF response.candidates = << >> THEN UndefinedCandidate
  ELSE response.candidates[1]

\* The test for a missing candidate left out.
NoCandidateIgnored(candidate) == FALSE

\* if (!candidate)
NoCandidate(candidate) == candidate.t = "undefined"

\* The finish-reason test knowing only the reasons the code names.
IsAbnormalFinishNamedOnly(fr) == fr \in { "SAFETY", "RECITATION", "OTHER" }

\* candidate.finishReason && finishReason !== "STOP" && !== "MAX_TOKENS"
IsAbnormalFinish(fr) == fr # "" /\ fr # "STOP" /\ fr # "MAX_TOKENS"

\* The error of an abnormal finish with the RECITATION branch left out.
FinishErrorWithoutRecitation(fr) ==
  IF fr = "SAFETY"
  THEN SafetyError(<< "GENERATION_BLOCKED:", "safety", "imagery" >>)
  ELSE IF fr = "OTHER"
  THEN ApiError(<< "GENERATION_FAILED:" >>, 500)
  ELSE ApiError(<< "GENERATION_STOPPED:", fr >>, 500)

\* The error thrown for an abnormal finish reason.
FinishError(fr) ==
  IF fr = "SAFETY"
  THEN SafetyError(<< "GENERATION_BLOCKED:", "safety", "imagery" >>)
  ELSE IF fr = "RECITATION"
  THEN SafetyError(<< "COPYRIGHT_BLOCK:" >>)
  ELSE IF fr = "OTHER"
  THEN ApiError(<< "GENERATION_FAILED:" >>, 500)
  ELSE ApiError(<< "GENERATION_STOPPED:", fr >>, 500)

\* parseResponse with the prompt-level block tested after the candidate.
parseResponseBlockLast(response) ==
  LET candidate == FirstCandidate(response)
      fr == candidate.finishReason
  IN IF NoCandidate(candidate)
     THEN Thrown(ApiError(<< "ZERO_CANDIDATES:" >>, 500))
     ELSE IF IsAbnormalFinish(fr)
     THEN Thrown(FinishError(fr))
     ELSE IF response.blockReason # ""
     THEN Thrown(SafetyError(<< "PROMPT_BLOCKED:", response.blockReason >>))
     ELSE Returned([ text |-> response.text, finishReason |-> fr, image |-> << >> ])

\* parseResponse(response)
parseResponse(response) ==
  LET candidate == FirstCandidate(response)
      fr == candidate.finishReason
      ip == FindInlinePart(candidate.parts)
  IN IF response.blockReason # ""
     THEN Thrown(SafetyError(<< "PROMPT_BLOCKED:", response.blockReason >>))
     ELSE IF NoCandidate(candidate)
     THEN Thrown(ApiError(<< "ZERO_CANDIDATES:" >>, 500))
     ELSE IF IsAbnormalFinish(fr)
     THEN Thrown(FinishError(fr))
     ELSE Returned([ text |-> response.text,
                     finishReason |-> fr,
                     image |-> IF ip # 0 /\ candidate.parts[ip].data # ""
                               THEN << "data:image/png;base64,",
                                       candidate.parts[ip].data >>
                               ELSE << >> ])

\* ------------------------------------------------------------------------
\* State
\* ------------------------------------------------------------------------
VARIABLES
  op,        \* the public operation in flight: generate, marketing, video
  pc,        \* where that operation is suspended
  retries,   \* config.maxRetries ?? DEFAULT_RETRIES
  attempt,   \* loop counter of generate
  lastError, \* generate's lastError
  env,       \* process.env.API_KEY ("" when unset)
  apiKey,    \* the credential read by the current attempt / video call
  keyReads,  \* number of getApiKey calls
  calls,     \* number of executeRequest / generateVideos calls
  sleeps,    \* number of completed or started sleep() calls
  delay,     \* milliseconds of the sleep() in progress, 0 when none is
  failures,  \* the classified error of every failed attempt, in order
  outcome,   \* what the operation yielded to its caller
  polls,     \* generateVideo's poll counter
  fetches,   \* number of getVideosOperation calls
  reply,     \* what the latest provider call settled with
  cx,        \* classifier check: the value given to normalizeError
  c1,        \* classifier check: normalizeError(cx)
  c2,        \* classifier check: normalizeError(normalizeError(cx))
  cpc,       \* classifier check: position
  px,        \* normalizer check: the response given to parseResponse
  pr,        \* normalizer check: what parseResponse returned or threw
  ppc,       \* normalizer check: position
  rq,        \* request check: the arguments given to executeRequest
  rs,        \* request check: the request executeRequest assembled
  rpc,       \* request check: position
  cancelled, \* the caller has signalled that it gives the operation up
  cc,        \* concurrent calls: the local state of each generate call
  cs,        \* concurrent calls: the provider outcomes each call will meet
  cbegun,    \* concurrent calls: attempts begun on the instance by all calls
  hk,        \* merch hook: the React state of useMerchController
  hres,      \* merch hook: what each variation call has settled with so far
  hpc,       \* merch hook: position of handleGenerateVariations
  sx,        \* suggestion check: the arguments of getErrorSuggestion
  sg,        \* suggestion check: the hint it returned
  ms,        \* merch controller: the React state after the queued updates
  mr,        \* merch controller: the state the handlers of the last render closed over
  mf,        \* merch controller: the handler calls in flight
  mstore,    \* merch controller: localStorage under STORAGE_KEY
  mdirty,    \* merch controller: assets, config or textOverlay changed since the last render
  mg,        \* merch controller: what happened last to the logo and the session
  fx,        \* fetch wrapper: the call of api and what fetch will settle with
  fo,        \* fetch wrapper: what the caller of api received
  fpc        \* fetch wrapper: position

vars == << op, pc, retries, attempt, lastError, env, apiKey, keyReads, calls,
           sleeps, delay, failures, outcome, polls, fetches, reply, cx, c1, c2,
           cpc,
           px, pr, ppc, rq, rs, rpc,
           cancelled, cc, cs, cbegun, hk, hres, hpc, sx, sg,
           ms, mr, mf, mstore, mdirty, mg, fx, fo, fpc >>

coreVars == << op, pc, retries, attempt, lastError, env, apiKey, keyReads,
               calls, sleeps, delay, failures, outcome, polls, fetches, reply >>
checkVars == << cx, c1, c2, cpc, px, pr, ppc >>
concVars == << cc, cs, cbegun >>
hookVars == << hk, hres, hpc >>
suggestVars == << sx, sg >>
merchVars == << ms, mr, mf, mstore, mdirty, mg >>
fetchVars == << fx, fo, fpc >>
otherVars == << rq, rs, rpc, cancelled, concVars, hookVars, suggestVars,
               merchVars, fetchVars >>
classVars == << checkVars, otherVars >>

NoValue == [ t |-> "none" ]

\* No concurrent calls are in flight.
ConcOff ==
  /\ cc = NoValue
  /\ cs = NoValue
  /\ cbegun = 0

\* The merch hook is not mounted.
HookOff ==
  /\ hk = NoValue
  /\ hres = NoValue
  /\ hpc = "off"

\* getErrorSuggestion is not being applied.
SuggestOff ==
  /\ sx = NoValue
  /\ sg = ""

\* The merch controller is not mounted.
MerchOff ==
  /\ ms = NoValue
  /\ mr = NoValue
  /\ mf = << >>
  /\ mstore = NoValue
  /\ mdirty = FALSE
  /\ mg = NoValue

\* No call of the backend api is being made.
FetchOff ==
  /\ fx = NoValue
  /\ fo = NoValue
  /\ fpc = "off"

\* The variables of the other components are at rest.
OthersOff ==
  /\ rq = NoValue
  /\ rs = NoValue
  /\ rpc = "off"
  /\ cancelled = FALSE
  /\ ConcOff
  /\ HookOff
  /\ SuggestOff
  /\ MerchOff
  /\ FetchOff
NoOutcome == [ kind |-> "none", value |-> NoValue, error |-> NoValue ]
ReturnedTo(value) == [ kind |-> "returned", value |-> value, error |-> NoValue ]
RaisedTo(error) == [ kind |-> "raised", value |-> NoValue, error |-> error ]

\* Values of process.env.API_KEY; "" is an unset or empty key.
Credentials == { "", "key-A", "key-B" }

\* ------------------------------------------------------------------------
\* Provider behaviour the orchestrator is run against
\* ------------------------------------------------------------------------
\* Failures a provider call can reject with.
AttemptFailures ==
  { RawFailure("object", << "teapot" >>, 429, 0),
    RawFailure("object", << "teapot" >>, 401, 0),
    RawFailure("object", << "Billing" >>, 403, 0),
    RawFailure("object", << "safety" >>, 0, 0),
    RawFailure("object", << "teapot" >>, 404, 0),
    RawFailure("object", << "teapot" >>, 0, 503),
    RawFailure("object", << "fetch" >>, 0, 0),
    RawFailure("object", << "teapot" >>, 400, 0),
    RawFailure("object", << "conflict" >>, 409, 0),
    RawFailure("string", << "teapot" >>, 0, 0) }

ValidRecordText == << "{title,description,tags}" >>

\* Responses a provider call can resolve with.
Responses ==
  { Response("", << Candidate("STOP", << TextPart, ImagePart("iVBOR") >>) >>, << >>),
    Response("", << Candidate("STOP", << ImagePart(""), ImagePart("iVBOR") >>) >>, << >>),
    Response("", << Candidate("", << TextPart >>) >>, ValidRecordText),
    Response("", << Candidate("MAX_TOKENS", << TextPart >>) >>, << "{not json" >>),
    Response("", << Candidate("STOP", << TextPart >>) >>, << "quota" >>),
    Response("", << >>, << >>),
    Response("SAFETY", << Candidate("STOP", << TextPart >>) >>, << >>),
    Response("", << Candidate("RECITATION", << TextPart >>) >>, << >>),
    Response("", << Candidate("SAFETY", << TextPart >>) >>, << >>),
    Response("", << Candidate("OTHER", << TextPart >>) >>, << >>),
    Response("", << Candidate("LANGUAGE", << TextPart >>) >>, << >>) }

\* Video operations a submit or a status fetch can resolve with.
Operations ==
  { [ t |-> "operation", done |-> FALSE, uri |-> "" ],
    [ t |-> "operation", done |-> TRUE, uri |-> "" ],
    [ t |-> "operation", done |-> TRUE, uri |-> "https://video" ] }

\* ------------------------------------------------------------------------
\* Retry orchestrator: generate
\* ------------------------------------------------------------------------
\* getApiKey() without the check of the key.
getApiKeyUnchecked(key) == Returned(key)

\* getApiKey() answering with the key an earlier attempt read, when there
\* is one.
getApiKeyCached(key) ==
  IF apiKey # "" THEN Returned(apiKey)
  ELSE IF key = "" THEN Thrown(AuthenticationError(<< "API_KEY_MISSING:" >>))
  ELSE Returned(key)

\* getApiKey(): the key, or the thrown AuthenticationError when it is unset.
getApiKey(key) ==
  IF key = "" THEN Thrown(AuthenticationError(<< "API_KEY_MISSING:" >>))
  ELSE Returned(key)

\* Math.random() * 500: the least and (rounded down) the greatest value.
Jitters == { 0, 499 }

\* The delay without the exponential growth.
BackoffFlat(a, jitter) == 1000 + jitter

\* Math.pow(2, attempt) * 1000 + (Math.random() * 500)
Backoff(a, jitter) == (2 ^ a) * 1000 + jitter

\* The test of generate's "fail immediately" branch treating every 4xx code
\* (429 included) as transient.
IsNonTransientNever4xx(normalized) ==
  normalized.cls = "SafetyError" \/ normalized.cls = "AuthenticationError"

\* The test of generate's "fail immediately" branch without the class tests.
IsNonTransientOnly4xx(normalized) ==
  InstanceOfApiError(normalized) /\ normalized.statusCode >= 400
     /\ normalized.statusCode < 500 /\ normalized.statusCode # 429

\* The test of generate's "fail immediately on non-transient errors" branch.
IsNonTransient(normalized) ==
  \/ normalized.cls = "SafetyError"
  \/ normalized.cls = "AuthenticationError"
  \/ /\ InstanceOfApiError(normalized)
     /\ normalized.statusCode >= 400
     /\ normalized.statusCode < 500
     /\ normalized.statusCode # 429

\* The loop test written attempt < retries.
LoopContinuesStrict(a, r) == a < r

\* for (...; attempt <= retries; ...): the loop body runs.
LoopContinues(a, r) == a <= r

\* if (attempt < retries) with an off-by-one.
RetriesRemainOffByOne(a, r) == a <= r

\* if (attempt < retries): another attempt follows the backoff sleep.
RetriesRemain(a, r) == a < r

\* JSON.parse(text): the parsed value, or the thrown SyntaxError; echo says
\* whether the engine quotes the source text in the SyntaxError message.
JsonParse(text, echo) ==
  IF text = << "{}" >> THEN Returned([ shape |-> "empty" ])
  ELSE IF text = ValidRecordText THEN Returned([ shape |-> "record" ])
  ELSE Thrown(RawFailure("object",
                << "Unexpected token" >> \o (IF echo THEN text ELSE << >>), 0, 0))

\* generateMarketingCopy's catch block replacing what it caught by a
\* generic error.
YieldToCallerGeneric(o, echo) ==
  IF op = "generate" THEN o
  ELSE IF o.kind = "raised" THEN RaisedTo(ApiError(<< "GENAI_ERROR:" >>, 500))
  ELSE LET text == IF o.value.text # << >> THEN o.value.text ELSE << "{}" >>
           parsed == JsonParse(text, echo)
       IN IF parsed.ok THEN ReturnedTo(parsed.value)
          ELSE RaisedTo(normalizeError(parsed.error))

\* What the caller of the operation in flight receives once generate has
\* yielded o: o itself for generate; for generateMarketingCopy the parsed
\* response.text || "{}", or the normalized error of its catch block.
YieldToCaller(o, echo) ==
  IF op = "generate" THEN o
  ELSE IF o.kind = "raised" THEN RaisedTo(normalizeError(o.error))
  ELSE LET text == IF o.value.text # << >> THEN o.value.text ELSE << "{}" >>
           parsed == JsonParse(text, echo)
       IN IF parsed.ok THEN ReturnedTo(parsed.value)
          ELSE RaisedTo(normalizeError(parsed.error))

\* generate's catch block, up to its next suspension or its exit.
Catch(error, echo) ==
  LET normalized == normalizeError(error) IN
  /\ lastError' = normalized
  /\ failures' = Append(failures, normalized)
  /\ IF IsNonTransient(normalized)
     THEN /\ pc' = "done"
          /\ outcome' = YieldToCaller(RaisedTo(normalized), echo)
          /\ UNCHANGED << attempt, sleeps, delay >>
     ELSE IF RetriesRemain(attempt, retries)
     THEN /\ pc' = "sleeping"
          /\ sleeps' = sleeps + 1
          /\ \E jitter \in Jitters : delay' = Backoff(attempt, jitter)
          /\ UNCHANGED << attempt, outcome >>
     ELSE \* attempt++, the loop test, and past the loop: throw lastError
          /\ attempt' = attempt + 1
          /\ IF LoopContinues(attempt + 1, retries)
             THEN pc' = "attempt" /\ UNCHANGED outcome
             ELSE /\ pc' = "done"
                  /\ outcome' = YieldToCaller(RaisedTo(normalized), echo)
          /\ UNCHANGED << sleeps, delay >>

\* A caller invokes generate(prompt, images, {maxRetries: n}).
StartGenerate ==
  /\ pc = "idle"
  /\ \E n \in 0..MaxRetriesBound : retries' = n
  /\ op' = "generate"
  /\ pc' = "attempt"
  /\ UNCHANGED << attempt, lastError, env, apiKey, keyReads, calls, sleeps, delay,
                  failures, outcome, polls, fetches, reply >>
  /\ UNCHANGED classVars

\* A caller invokes generateMarketingCopy, which calls generate without
\* maxRetries.
StartMarketing ==
  /\ pc = "idle"
  /\ retries' = DEFAULT_RETRIES
  /\ op' = "marketing"
  /\ pc' = "attempt"
  /\ UNCHANGED << attempt, lastError, env, apiKey, keyReads, calls, sleeps, delay,
                  failures, outcome, polls, fetches, reply >>
  /\ UNCHANGED classVars

\* One loop iteration up to the provider call: read the key, build the
\* client, issue the request.
AttemptBegin ==
  /\ pc = "attempt"
  /\ IF LoopContinues(attempt, retries)
     THEN /\ keyReads' = keyReads + 1
          /\ LET k == getApiKey(env) IN
             IF k.ok
             THEN /\ apiKey' = k.value
                  /\ calls' = calls + 1
                  /\ pc' = "calling"
                  /\ UNCHANGED << attempt, lastError, sleeps, delay, failures, outcome >>
             ELSE /\ Catch(k.error, FALSE)
                  /\ UNCHANGED << apiKey, calls >>
     ELSE \* past the loop: throw lastError
          /\ pc' = "done"
          /\ outcome' = YieldToCaller(RaisedTo(lastError), FALSE)
          /\ UNCHANGED << attempt, lastError, sleeps, delay, failures, apiKey, calls,
                          keyReads >>
  /\ UNCHANGED << op, retries, env, polls, fetches, reply >>
  /\ UNCHANGED classVars

\* The provider call settles: it rejects, or it resolves with a response
\* that parseResponse accepts or rejects.
ProviderReply ==
  /\ pc = "calling"
  /\ \E echo \in BOOLEAN :
       \/ \E f \in AttemptFailures : reply' = f /\ Catch(f, echo)
       \/ \E r \in Responses :
            LET parsed == parseResponse(r) IN
            /\ reply' = r
            /\ IF parsed.ok
               THEN /\ pc' = "done"
                    /\ outcome' = YieldToCaller(ReturnedTo(parsed.value), echo)
                    /\ UNCHANGED << attempt, lastError, sleeps, delay, failures >>
               ELSE Catch(parsed.error, echo)
  /\ UNCHANGED << op, retries, env, apiKey, keyReads, calls, polls, fetches >>
  /\ UNCHANGED classVars

\* The backoff sleep ends: continue with the next iteration.
Wake ==
  /\ pc = "sleeping"
  /\ attempt' = attempt + 1
  /\ pc' = "attempt"
  /\ delay' = 0
  /\ UNCHANGED << op, retries, lastError, env, apiKey, keyReads, calls, sleeps,
                  failures, outcome, polls, fetches, reply >>
  /\ UNCHANGED classVars

\* The environment's key is rotated or removed while the operation is
\* suspended.
EnvChange ==
  /\ pc \in { "calling", "sleeping", "vsubmitting", "vsleep", "vfetching" }
  /\ \E k \in Credentials \ {env} : env' = k
  /\ UNCHANGED << op, pc, retries, attempt, lastError, apiKey, keyReads, calls,
                  sleeps, delay, failures, outcome, polls, fetches, reply >>
  /\ UNCHANGED classVars

\* ------------------------------------------------------------------------
\* Async job poller: generateVideo
\* ------------------------------------------------------------------------
\* generateVideo's catch block rethrowing what it caught.
VideoCatchRethrow(error) ==
  /\ pc' = "done"
  /\ outcome' = RaisedTo(error)

\* generateVideo's catch block: throw this.normalizeError(error).
VideoCatch(error) ==
  /\ pc' = "done"
  /\ outcome' = RaisedTo(normalizeError(error))

\* if (polls++ > MAX_POLLS): the poll budget is spent.
PollBudgetSpent(p) == p > MAX_POLLS

\* The loop test blind to the done flag.
OperationDoneIgnored(operation) == FALSE

\* operation.done, as the while loop tests it.
OperationDone(operation) == operation.done

\* The result built with the key the environment holds at that moment.
VideoResultCurrentKey(operation, key) ==
  IF operation.uri # "" THEN << operation.uri, "&key=", env >> ELSE "null"

\* The result built without the test of the URI.
VideoResultUntested(operation, key) == << operation.uri, "&key=", key >>

\* if (videoUri) return `${videoUri}&key=${apiKey}`; return null
VideoResult(operation, key) ==
  IF operation.uri # "" THEN << operation.uri, "&key=", key >> ELSE "null"

\* The while (!operation.done) loop from its test to the next suspension,
\* and the extraction of the result once the operation is done.
VideoLoop(operation) ==
  IF ~OperationDone(operation)
  THEN /\ polls' = polls + 1
       /\ IF PollBudgetSpent(polls)
          THEN /\ VideoCatch(ApiError(<< "TIMEOUT:" >>, 408))
               /\ UNCHANGED << sleeps, delay >>
          ELSE /\ pc' = "vsleep"
               /\ sleeps' = sleeps + 1
               /\ delay' = POLL_INTERVAL
               /\ UNCHANGED outcome
  ELSE /\ pc' = "done"
       /\ outcome' = ReturnedTo(VideoResult(operation, apiKey))
       /\ UNCHANGED << polls, sleeps, delay >>

\* A caller invokes generateVideo: read the key and submit the job.
StartVideo ==
  /\ pc = "idle"
  /\ op' = "video"
  /\ keyReads' = keyReads + 1
  /\ LET k == getApiKey(env) IN
     IF k.ok
     THEN /\ apiKey' = k.value
          /\ calls' = calls + 1
          /\ pc' = "vsubmitting"
          /\ UNCHANGED outcome
     ELSE /\ VideoCatch(k.error)
          /\ UNCHANGED << apiKey, calls >>
  /\ UNCHANGED << retries, attempt, lastError, env, sleeps, delay, failures, polls,
                  fetches, reply >>
  /\ UNCHANGED classVars

\* The job-creation call settles.
SubmitReply ==
  /\ pc = "vsubmitting"
  /\ \/ \E f \in AttemptFailures :
          reply' = f /\ VideoCatch(f) /\ UNCHANGED << polls, sleeps, delay >>
     \/ \E o \in Operations : reply' = o /\ VideoLoop(o)
  /\ UNCHANGED << op, retries, attempt, lastError, env, apiKey, keyReads, calls,
                  failures, fetches >>
  /\ UNCHANGED classVars

\* The 5000 ms poll sleep ends: re-fetch the operation.
PollWake ==
  /\ pc = "vsleep"
  /\ fetches' = fetches + 1
  /\ pc' = "vfetching"
  /\ delay' = 0
  /\ UNCHANGED << op, retries, attempt, lastError, env, apiKey, keyReads, calls,
                  sleeps, failures, outcome, polls, reply >>
  /\ UNCHANGED classVars

\* The status re-fetch settles.
FetchReply ==
  /\ pc = "vfetching"
  /\ \/ \E f \in AttemptFailures :
          reply' = f /\ VideoCatch(f) /\ UNCHANGED << polls, sleeps, delay >>
     \/ \E o \in Operations : reply' = o /\ VideoLoop(o)
  /\ UNCHANGED << op, retries, attempt, lastError, env, apiKey, keyReads, calls,
                  failures, fetches >>
  /\ UNCHANGED classVars

\* ------------------------------------------------------------------------
\* Specification of the orchestration core
\* ------------------------------------------------------------------------
Init ==
  /\ op = "none"
  /\ pc = "idle"
  /\ retries = 0
  /\ attempt = 0
  /\ lastError = NoValue
  /\ env \in Credentials
  /\ apiKey = ""
  /\ keyReads = 0
  /\ calls = 0
  /\ sleeps = 0
  /\ delay = 0
  /\ failures = << >>
  /\ outcome = NoOutcome
  /\ polls = 0
  /\ fetches = 0
  /\ reply = NoValue
  /\ cx = NoValue
  /\ c1 = NoValue
  /\ c2 = NoValue
  /\ cpc = "off"
  /\ px = NoValue
  /\ pr = NoValue
  /\ ppc = "off"
  /\ OthersOff

Next ==
  \/ StartGenerate
  \/ StartMarketing
  \/ AttemptBegin
  \/ ProviderReply
  \/ Wake
  \/ EnvChange
  \/ StartVideo
  \/ SubmitReply
  \/ PollWake
  \/ FetchReply

Spec == Init /\ [][Next]_vars

\* ------------------------------------------------------------------------
\* The orchestration core with a caller that may give the operation up
\* ------------------------------------------------------------------------
\* The points at which generate or generateVideo is suspended.
Suspended == pc \in { "calling", "sleeping", "vsubmitting", "vsleep", "vfetching" }

\* The caller signals cancellation while the operation is suspended. No
\* parameter of generate, generateVideo or sleep carries such a signal, so
\* nothing of the operation changes.
Cancel ==
  /\ Suspended
  /\ ~cancelled
  /\ cancelled' = TRUE
  /\ UNCHANGED coreVars
  /\ UNCHANGED checkVars
  /\ UNCHANGED << rq, rs, rpc, concVars, hookVars, suggestVars, merchVars,
                  fetchVars >>

CancelNext == Next \/ Cancel

CancelSpec == Init /\ [][CancelNext]_vars

\* ------------------------------------------------------------------------
\* Specification of the classifier alone: normalizeError applied to a raw
\* failure, and applied again to its own result
\* ------------------------------------------------------------------------
RECURSIVE MessagesFrom(_, _)
\* The messages of at most n fragments taken from Vocabulary[first..], in
\* vocabulary order.
MessagesFrom(first, n) ==
  IF n = 0 \/ first > Len(Vocabulary) THEN { << >> }
  ELSE MessagesFrom(first + 1, n)
       \cup { << Vocabulary[first] >> \o m : m \in MessagesFrom(first + 1, n - 1) }

RawMessages == MessagesFrom(1, MaxMsgLen)

\* HTTP statuses of raw failures; 0 is an absent status.
Statuses == { 0, 400, 401, 403, 404, 409, 418, 429, 500, 501, 502, 503, 504 }

RawFailures ==
  { RawFailure("object", m, s, r) :
      m \in RawMessages, s \in Statuses, r \in {0, 429, 403} }
  \cup { RawFailure("string", m, 0, 0) : m \in RawMessages }
  \cup { RawFailure("null", << >>, 0, 0) }

\* Errors that reach normalizeError already classified: thrown by
\* getApiKey, parseResponse and the video poll loop.
ThrownAppErrors ==
  { AuthenticationError(<< "API_KEY_MISSING:" >>),
    ApiError(<< "TIMEOUT:" >>, 408) }
  \cup { parseResponse(r).error : r \in { q \in Responses : ~parseResponse(q).ok } }

ClassifyInit ==
  /\ op = "none"
  /\ pc = "off"
  /\ retries = 0
  /\ attempt = 0
  /\ lastError = NoValue
  /\ env = ""
  /\ apiKey = ""
  /\ keyReads = 0
  /\ calls = 0
  /\ sleeps = 0
  /\ delay = 0
  /\ failures = << >>
  /\ outcome = NoOutcome
  /\ polls = 0
  /\ fetches = 0
  /\ reply = NoValue
  /\ cx \in RawFailures \cup ThrownAppErrors
  /\ c1 = NoValue
  /\ c2 = NoValue
  /\ cpc = "raw"
  /\ px = NoValue
  /\ pr = NoValue
  /\ ppc = "off"
  /\ OthersOff

\* normalizeError(x)
Classify ==
  /\ cpc = "raw"
  /\ c1' = normalizeError(cx)
  /\ cpc' = "classified"
  /\ UNCHANGED << cx, c2, px, pr, ppc >>
  /\ UNCHANGED otherVars
  /\ UNCHANGED coreVars

\* normalizeError(normalizeError(x))
ClassifyAgain ==
  /\ cpc = "classified"
  /\ c2' = normalizeError(c1)
  /\ cpc' = "reclassified"
  /\ UNCHANGED << cx, c1, px, pr, ppc >>
  /\ UNCHANGED otherVars
  /\ UNCHANGED coreVars

ClassifyNext == Classify \/ ClassifyAgain

ClassifySpec == ClassifyInit /\ [][ClassifyNext]_vars

\* ------------------------------------------------------------------------
\* parseResponse as a function of the provider response
\* ------------------------------------------------------------------------
\* Sequences over S of length at most n.
RECURSIVE SeqsUpTo(_, _)
SeqsUpTo(S, n) ==
  IF n = 0 THEN { << >> }
  ELSE LET shorter == SeqsUpTo(S, n - 1)
       IN shorter \cup { Append(q, x) : q \in shorter, x \in S }

\* candidate.content.parts: text parts and inline parts with or without data.
PartLists == SeqsUpTo({ TextPart, ImagePart("iVBOR"), ImagePart("") }, MaxParts)

\* candidate.finishReason: absent, the two normal ones, the named abnormal
\* ones and one the code does not name.
FinishReasons ==
  { "", "STOP", "MAX_TOKENS", "SAFETY", "RECITATION", "OTHER", "LANGUAGE" }

FirstCandidates == { Candidate(fr, parts) : fr \in FinishReasons, parts \in PartLists }

\* Candidates after the first; parseResponse never reads them.
LaterCandidates ==
  SeqsUpTo({ Candidate("STOP", << TextPart >>), Candidate("SAFETY", << >>) },
           MaxCandidates - 1)

CandidateLists ==
  { << >> } \cup { << first >> \o later : first \in FirstCandidates, later \in LaterCandidates }

\* promptFeedback.blockReason: absent or one of the provider's reasons.
BlockReasons == { "", "SAFETY", "OTHER" }

ParsedResponses ==
  { Response(blockReason, candidates, text) :
      blockReason \in BlockReasons,
      candidates \in CandidateLists,
      text \in { << >>, ValidRecordText } }

NormalizeInit ==
  /\ op = "none"
  /\ pc = "off"
  /\ retries = 0
  /\ attempt = 0
  /\ lastError = NoValue
  /\ env = ""
  /\ apiKey = ""
  /\ keyReads = 0
  /\ calls = 0
  /\ sleeps = 0
  /\ delay = 0
  /\ failures = << >>
  /\ outcome = NoOutcome
  /\ polls = 0
  /\ fetches = 0
  /\ reply = NoValue
  /\ cx = NoValue
  /\ c1 = NoValue
  /\ c2 = NoValue
  /\ cpc = "off"
  /\ px \in ParsedResponses
  /\ pr = NoValue
  /\ ppc = "response"
  /\ OthersOff

\* parseResponse(response)
Normalize ==
  /\ ppc = "response"
  /\ pr' = parseResponse(px)
  /\ ppc' = "parsed"
  /\ UNCHANGED << cx, c1, c2, cpc, px >>
  /\ UNCHANGED otherVars
  /\ UNCHANGED coreVars

NormalizeNext == Normalize

NormalizeSpec == NormalizeInit /\ [][NormalizeNext]_vars

\* ------------------------------------------------------------------------
\* The orchestration core and the two function checks at rest
\* ------------------------------------------------------------------------
CoreOff ==
  /\ op = "none"
  /\ pc = "off"
  /\ retries = 0
  /\ attempt = 0
  /\ lastError = NoValue
  /\ env = ""
  /\ apiKey = ""
  /\ keyReads = 0
  /\ calls = 0
  /\ sleeps = 0
  /\ delay = 0
  /\ failures = << >>
  /\ outcome = NoOutcome
  /\ polls = 0
  /\ fetches = 0
  /\ reply = NoValue

ChecksOff ==
  /\ cx = NoValue
  /\ c1 = NoValue
  /\ c2 = NoValue
  /\ cpc = "off"
  /\ px = NoValue
  /\ pr = NoValue
  /\ ppc = "off"

\* ------------------------------------------------------------------------
\* Concurrent generate calls on the one AICoreService instance
\* ------------------------------------------------------------------------
\* The calls in flight.
Calls == { "A", "B" }

\* What a provider call of a concurrent call can settle with.
ScriptOutcomes ==
  { RawFailure("object", << "overloaded" >>, 0, 503),
    RawFailure("object", << "api key" >>, 401, 0),
    Response("", << Candidate("STOP", << TextPart, ImagePart("iVBOR") >>) >>, << >>) }

\* The outcomes a call with the given maxRetries can meet, one per attempt.
ScriptsFor(n) == { q \in SeqsUpTo(ScriptOutcomes, n + 1) : Len(q) = n + 1 }

\* The locals of generate at its entry: retries, attempt, lastError.
CallEntry(n) ==
  [ pc |-> "attempt", retries |-> n, attempt |-> 0, lastError |-> NoValue,
    taken |-> 0, delays |-> << >>, outcome |-> NoOutcome ]

\* The loop counter read from a count kept on the shared instance.
AttemptOfInstance(own, begun) == begun - 1

\* The loop counter attempt: a local of the call.
AttemptOf(own, begun) == own

ConcInit ==
  /\ CoreOff
  /\ ChecksOff
  /\ rq = NoValue
  /\ rs = NoValue
  /\ rpc = "off"
  /\ cancelled = FALSE
  /\ HookOff
  /\ SuggestOff
  /\ MerchOff
  /\ FetchOff
  /\ \E n \in [ Calls -> 0..MaxConcRetries ] :
       /\ cc = [ c \in Calls |-> CallEntry(n[c]) ]
       /\ cs \in [ Calls -> UNION { ScriptsFor(k) : k \in 0..MaxConcRetries } ]
       /\ \A c \in Calls : cs[c] \in ScriptsFor(n[c])
  /\ cbegun = 0

\* The catch block of one call, up to its next suspension or its exit.
CallCatch(st, begun, error, jitter) ==
  LET normalized == normalizeError(error)
      a == AttemptOf(st.attempt, begun)
      caught == [ st EXCEPT !.lastError = normalized ]
  IN IF IsNonTransient(normalized)
     THEN [ caught EXCEPT !.pc = "done", !.outcome = RaisedTo(normalized) ]
     ELSE IF RetriesRemain(a, st.retries)
     THEN [ caught EXCEPT !.pc = "sleeping",
                          !.delays = Append(@, Backoff(a, jitter)) ]
     ELSE IF LoopContinues(a + 1, st.retries)
     THEN [ caught EXCEPT !.pc = "attempt", !.attempt = a + 1 ]
     ELSE [ caught EXCEPT !.pc = "done", !.attempt = a + 1,
                          !.outcome = RaisedTo(normalized) ]

\* One loop iteration of call c up to its provider call.
CallAttempt(c) ==
  /\ cc[c].pc = "attempt"
  /\ cbegun' = cbegun + 1
  /\ LET k == getApiKey("key-A")
     IN cc' = [ cc EXCEPT ![c] =
                  IF k.ok THEN [ @ EXCEPT !.pc = "calling", !.taken = @ + 1 ]
                  ELSE CallCatch(@, cbegun + 1, k.error, 0) ]
  /\ UNCHANGED cs

\* The provider call of call c settles with the next outcome of its script.
CallReply(c) ==
  /\ cc[c].pc = "calling"
  /\ LET r == cs[c][cc[c].taken]
     IN \E jitter \in Jitters :
          cc' = [ cc EXCEPT ![c] =
                    IF r.t = "raw" THEN CallCatch(@, cbegun, r, jitter)
                    ELSE IF parseResponse(r).ok
                    THEN [ @ EXCEPT !.pc = "done",
                                    !.outcome = ReturnedTo(parseResponse(r).value) ]
                    ELSE CallCatch(@, cbegun, parseResponse(r).error, jitter) ]
  /\ UNCHANGED << cs, cbegun >>

\* The backoff sleep of call c ends.
CallWake(c) ==
  /\ cc[c].pc = "sleeping"
  /\ cc' = [ cc EXCEPT ![c].pc = "attempt",
                       ![c].attempt = AttemptOf(@, cbegun) + 1 ]
  /\ UNCHANGED << cs, cbegun >>

ConcNext ==
  /\ \E c \in Calls : CallAttempt(c) \/ CallReply(c) \/ CallWake(c)
  /\ UNCHANGED coreVars
  /\ UNCHANGED checkVars
  /\ UNCHANGED << rq, rs, rpc, cancelled, hookVars, suggestVars,
                  merchVars, fetchVars >>

ConcSpec == ConcInit /\ [][ConcNext]_vars

\* ------------------------------------------------------------------------
\* Merch hook: handleGenerateVariations
\* ------------------------------------------------------------------------
\* getVariationPrompts: the three alternative prompts, in their order.
VariationPrompts == << "MOCKUP_ALT_A", "MOCKUP_ALT_B", "MOCKUP_ALT_C" >>

\* What aiCore.generate can settle with for the i-th prompt: a result with
\* an image, a result without one, or a raised error.
GenerateOutcomes(i) ==
  { ReturnedTo([ text |-> << >>, finishReason |-> "STOP",
                 image |-> << "data:image/png;base64,", VariationPrompts[i] >> ]),
    ReturnedTo([ text |-> << "no image" >>, finishReason |-> "STOP", image |-> << >> ]),
    RaisedTo(RateLimitError),
    RaisedTo(SafetyError(<< "PROMPT_BLOCKED:", "SAFETY" >>)) }

Pending == [ kind |-> "pending", value |-> NoValue, error |-> NoValue ]
Null == [ t |-> "null" ]

\* The promise of one call with no catch attached.
SettledUncaught(o) == o

\* aiCore.generate(...).catch(() => null)
Settled(o) == IF o.kind = "raised" THEN ReturnedTo(Null) ELSE o

\* results.map(r => r?.image).filter(img => !!img)
ImagesOf(results) ==
  LET withImage == SelectSeq(results, LAMBDA r : r.value # Null /\ r.value.image # << >>)
  IN [ i \in 1..Len(withImage) |-> withImage[i].value.image ]

\* The state the hook can be in when the user asks for variations.
HookStates ==
  [ logo : { "", "logo.png" },
    variations : { << >>, << << "data:image/png;base64,", "earlier" >> >> },
    isGeneratingVariations : { FALSE },
    error : { "", "earlier error" } ]

HookInit ==
  /\ CoreOff
  /\ ChecksOff
  /\ rq = NoValue
  /\ rs = NoValue
  /\ rpc = "off"
  /\ cancelled = FALSE
  /\ ConcOff
  /\ SuggestOff
  /\ MerchOff
  /\ FetchOff
  /\ hk \in HookStates
  /\ hres = << >>
  /\ hpc = "idle"

\* handleGenerateVariations up to await Promise.all(...).
StartVariations ==
  /\ hpc = "idle"
  /\ IF hk.logo = "" \/ hk.isGeneratingVariations
     THEN hpc' = "returned" /\ UNCHANGED << hk, hres >>
     ELSE /\ hk' = [ hk EXCEPT !.isGeneratingVariations = TRUE, !.error = "" ]
          /\ hres' = [ i \in 1..Len(VariationPrompts) |-> Pending ]
          /\ hpc' = "awaiting"

\* One of the concurrent calls settles.
SettleVariation ==
  /\ hpc = "awaiting"
  /\ \E i \in 1..Len(hres) :
       /\ hres[i] = Pending
       /\ \E o \in GenerateOutcomes(i) : hres' = [ hres EXCEPT ![i] = Settled(o) ]
  /\ UNCHANGED << hk, hpc >>

\* Promise.all settles: it rejects with the first rejection, or resolves
\* once every call has resolved; then the rest of the handler runs.
FinishVariations ==
  /\ hpc = "awaiting"
  /\ \/ /\ \E i \in 1..Len(hres) : hres[i].kind = "raised"
        /\ \E i \in 1..Len(hres) :
             /\ hres[i].kind = "raised"
             /\ hk' = [ hk EXCEPT !.error = hres[i].error.message[1],
                                  !.isGeneratingVariations = FALSE ]
     \/ /\ \A i \in 1..Len(hres) : hres[i].kind = "returned"
        /\ hk' = [ hk EXCEPT !.variations = ImagesOf(hres),
                             !.isGeneratingVariations = FALSE ]
  /\ hpc' = "returned"
  /\ UNCHANGED hres

HookNext ==
  /\ StartVariations \/ SettleVariation \/ FinishVariations
  /\ UNCHANGED coreVars
  /\ UNCHANGED checkVars
  /\ UNCHANGED << rq, rs, rpc, cancelled, concVars, suggestVars,
                  merchVars, fetchVars >>

HookSpec == HookInit /\ [][HookNext]_vars

\* ------------------------------------------------------------------------
\* Presentation layer: getErrorSuggestion(errorMsg, hasBackground)
\* ------------------------------------------------------------------------
\* The search terms of getErrorSuggestion a lower-case fragment contains.
SuggestTermsIn(tok) ==
  CASE tok \in { "429", "quota", "exhausted", "api key", "billing", "location",
                 "region", "safety", "blocked", "overloaded", "busy", "capacity",
                 "invalid argument", "image", "project", "format", "size" } -> {tok}
    [] tok = "permission denied" -> {"permission"}
    [] tok = "permissions" -> {"permission"}
    [] tok = "harmful" -> {"harm"}
    [] tok = "imagery" -> {"image"}
    [] tok = "enabled" -> {"enable"}
    [] tok = "billing_required:" -> {"billing"}
    [] tok = "safety_violation:" -> {"safety"}
    [] tok = "invalid_image:" -> {"image"}
    [] tok = "prompt_blocked:" -> {"blocked"}
    [] tok = "generation_blocked:" -> {"blocked"}
    [] tok = "zero_candidates:" -> {"candidate"}
    [] tok = "copyright_block:" -> {"copyright"}
    [] OTHER -> {}

\* msg.includes(term) on the lower-cased message.
Has(msg, term) == \E i \in 1..Len(msg) : term \in SuggestTermsIn(msg[i])

HasAny(msg, terms) == \E term \in terms : Has(msg, term)

\* getErrorSuggestion: the hint, named by the label it begins with.
getErrorSuggestion(errorMsg, hasBackground) ==
  LET msg == toLowerCase(errorMsg) IN
  IF Has(msg, "limit") /\ HasAny(msg, { "size", "mb" }) THEN "Storage Limit"
  ELSE IF HasAny(msg, { "not a valid image", "type" }) THEN "Format Error"
  ELSE IF HasAny(msg, { "texture_load", "resource unreachable" }) THEN "Rendering Security"
  ELSE IF HasAny(msg, { "canvas_context", "2d context" }) THEN "System Limitation"
  ELSE IF Has(msg, "export_failure") THEN "Export Failed"
  ELSE IF HasAny(msg, { "safety", "blocked", "candidate" })
  THEN IF HasAny(msg, { "face", "person", "human", "child" }) THEN "Safety Policy (people)"
       ELSE IF HasAny(msg, { "sexual", "violent", "harm", "nude" }) THEN "Safety Policy (content)"
       ELSE "Safety Filter"
  ELSE IF HasAny(msg, { "recitation", "copyright" }) THEN "Content Policy"
  ELSE IF HasAny(msg, { "429", "quota", "exhausted" }) THEN "API Capacity"
  ELSE IF HasAny(msg, { "location", "region", "country" }) THEN "Geo-Restriction"
  ELSE IF HasAny(msg, { "500", "502", "503", "504", "overloaded", "busy", "capacity" })
  THEN "System Status"
  ELSE IF HasAny(msg, { "billing", "project", "enable" }) THEN "Account Config"
  ELSE IF HasAny(msg, { "403", "permission", "valid key", "api key" }) THEN "Authentication"
  ELSE IF HasAny(msg, { "image", "media", "buffer" }) /\ HasAny(msg, { "large", "size" })
  THEN "Asset Error (size)"
  ELSE IF HasAny(msg, { "image", "media", "buffer" }) /\ HasAny(msg, { "small", "dimension" })
  THEN "Asset Error (resolution)"
  ELSE IF HasAny(msg, { "image", "media", "buffer" }) /\ HasAny(msg, { "format", "mime", "decode" })
  THEN "Asset Error (format)"
  ELSE IF HasAny(msg, { "400", "invalid argument" }) THEN "Request Error"
  ELSE IF hasBackground /\ HasAny(msg, { "blend", "composite" }) THEN "Composition Error"
  ELSE "Diagnostic"

\* Every error the core can raise: what normalizeError makes of a raw
\* failure, and what getApiKey, parseResponse and the poll loop throw.
CoreErrors ==
  { normalizeError(x) : x \in RawFailures \cup ThrownAppErrors }
  \cup { parseResponse(r).error : r \in { q \in ParsedResponses : ~parseResponse(q).ok } }

SuggestInit ==
  /\ CoreOff
  /\ ChecksOff
  /\ rq = NoValue
  /\ rs = NoValue
  /\ rpc = "off"
  /\ cancelled = FALSE
  /\ ConcOff
  /\ HookOff
  /\ MerchOff
  /\ FetchOff
  /\ sx \in [ t : { "arguments" }, error : CoreErrors, hasBackground : BOOLEAN ]
  /\ sg = ""

\* setError(err.message), then getErrorSuggestion(error, !!assets.bg).
Suggest ==
  /\ sx # NoValue
  /\ sg = ""
  /\ sg' = getErrorSuggestion(sx.error.message, sx.hasBackground)
  /\ UNCHANGED sx
  /\ UNCHANGED coreVars
  /\ UNCHANGED checkVars
  /\ UNCHANGED << rq, rs, rpc, cancelled, concVars, hookVars,
                  merchVars, fetchVars >>

SuggestNext == Suggest

SuggestSpec == SuggestInit /\ [][SuggestNext]_vars

\* ------------------------------------------------------------------------
\* Request executor: the request executeRequest assembles
\* ------------------------------------------------------------------------
\* An optional number of AIRequestConfig: left out, or given.
Undefined == [ def |-> FALSE, n |-> 0 ]
Num(n) == [ def |-> TRUE, n |-> n ]

\* The truth value JavaScript gives an optional number in a condition.
Truthy(x) == x.def /\ x.n # 0

\* Math.max
Max(a, b) == IF a >= b THEN a ELSE b

\* The AIModel names, cut so that the fragment "image" stands alone.
ImageModel == << "gemini-2.5-flash-", "image" >>
ProImageModel == << "gemini-3-pro-", "image", "-preview" >>
Models ==
  { << "gemini-3-flash-preview" >>, << "gemini-3-pro-preview" >>,
    ImageModel, ProImageModel,
    << "gemini-2.5-flash-lite-latest" >>, << "veo-3.1-fast-generate-preview" >> }

\* A part of the request payload.
InlineDataPart(img) == [ kind |-> "inlineData", of |-> img, text |-> "" ]
TextOnlyPart(text) == [ kind |-> "text", of |-> "", text |-> text ]

\* images.filter(Boolean).map(img => ({ inlineData: ... }))
InlineParts(images) ==
  LET kept == SelectSeq(images, LAMBDA img : img # "")
  IN [ i \in 1..Len(kept) |-> InlineDataPart(kept[i]) ]

\* The text part pushed without the default for an empty prompt.
PromptTextAsGiven(prompt) == TextOnlyPart(prompt)

\* parts.push({ text: prompt || "Analyze input assets." })
PromptText(prompt) ==
  TextOnlyPart(IF prompt # "" THEN prompt ELSE "Analyze input assets.")

\* The token budget with the two margins exchanged.
OutputTokensMarginsSwapped(config) ==
  IF config.thinkingBudget.def
  THEN IF Truthy(config.maxOutputTokens)
       THEN Num(Max(config.maxOutputTokens.n, config.thinkingBudget.n + 2048))
       ELSE Num(config.thinkingBudget.n + 1024)
  ELSE IF Truthy(config.maxOutputTokens) THEN config.maxOutputTokens
  ELSE Undefined

\* generationConfig.maxOutputTokens after the thinking logic.
OutputTokens(config) ==
  IF config.thinkingBudget.def
  THEN IF Truthy(config.maxOutputTokens)
       THEN Num(Max(config.maxOutputTokens.n, config.thinkingBudget.n + 1024))
       ELSE Num(config.thinkingBudget.n + 2048)
  ELSE IF Truthy(config.maxOutputTokens) THEN config.maxOutputTokens
  ELSE Undefined

\* The test for an image model looking at the pro image model only.
IsImageModelProOnly(model) == model = ProImageModel

\* config.model.includes('image')
IsImageModel(model) == includes(model, "image")

\* if (config.useSearch) generationConfig.tools = [{ googleSearch: {} }]
Tools(config) == IF config.useSearch THEN << "googleSearch" >> ELSE << >>

\* generationConfig.imageConfig; "" stands for a key that is not there.
ImageConfig(config) ==
  IF IsImageModel(config.model)
  THEN [ def |-> TRUE,
         aspectRatio |-> IF config.aspectRatio # "" THEN config.aspectRatio ELSE "1:1",
         imageSize |-> IF config.model = ProImageModel
                       THEN IF config.imageSize # "" THEN config.imageSize ELSE "1K"
                       ELSE "" ]
  ELSE [ def |-> FALSE, aspectRatio |-> "", imageSize |-> "" ]

\* The argument of ai.models.generateContent.
AssembleRequest(prompt, images, config) ==
  [ t |-> "request",
    model |-> config.model,
    parts |-> Append(InlineParts(images), PromptText(prompt)),
    thinkingBudget |-> config.thinkingBudget,
    maxOutputTokens |-> OutputTokens(config),
    tools |-> Tools(config),
    imageConfig |-> ImageConfig(config) ]

\* Inputs of executeRequest.
ThinkingBudgets == { Undefined, Num(0), Num(1000) }
OutputTokenLimits == { Undefined, Num(500), Num(2024), Num(4096) }
Prompts == { "", "a mug on a desk" }
ImageLists == SeqsUpTo({ "", "data:image/png;base64,AAAA", "data:image/jpeg;base64,BBBB" }, MaxImages)

Configs ==
  [ model : Models,
    aspectRatio : { "", "16:9" },
    imageSize : { "", "4K" },
    thinkingBudget : ThinkingBudgets,
    maxOutputTokens : OutputTokenLimits,
    useSearch : BOOLEAN ]

RequestInit ==
  /\ CoreOff
  /\ ChecksOff
  /\ rq \in [ t : { "arguments" }, prompt : Prompts, images : ImageLists, config : Configs ]
  /\ rs = NoValue
  /\ rpc = "arguments"
  /\ cancelled = FALSE
  /\ ConcOff
  /\ HookOff
  /\ SuggestOff
  /\ MerchOff
  /\ FetchOff

\* executeRequest up to and including its one ai.models.generateContent
\* call.
Assemble ==
  /\ rpc = "arguments"
  /\ rs' = AssembleRequest(rq.prompt, rq.images, rq.config)
  /\ calls' = calls + 1
  /\ rpc' = "assembled"
  /\ UNCHANGED << rq, cancelled, concVars, hookVars, suggestVars,
                  merchVars, fetchVars >>
  /\ UNCHANGED << op, pc, retries, attempt, lastError, env, apiKey, keyReads,
                  sleeps, delay, failures, outcome, polls, fetches, reply >>
  /\ UNCHANGED checkVars

RequestNext == Assemble

RequestSpec == RequestInit /\ [][RequestNext]_vars

\* ------------------------------------------------------------------------
\* Merch controller: useMerchController (src/features/merch/hooks)
\* Of assets.bg, config.style and textOverlay only the fact that they
\* changed is kept (mdirty); the upload and publish flags are left out.
\* ------------------------------------------------------------------------
MaxInFlight == 2

Handlers == { "generate", "variations", "video", "marketing" }

\* The busy flag of a handler.
FlagOf(s, h) ==
  CASE h = "generate" -> s.loading
    [] h = "variations" -> s.isGeneratingVariations
    [] h = "video" -> s.isVideoGenerating
    [] h = "marketing" -> s.isMarketingGenerating

\* The useState cells of the hook.
ControllerState(logo, product) ==
  [ logo |-> logo, product |-> product, resultImage |-> "null",
    variations |-> << >>, videoUrl |-> "null", marketingData |-> "null",
    loading |-> FALSE, isGeneratingVariations |-> FALSE,
    isVideoGenerating |-> FALSE, isMarketingGenerating |-> FALSE,
    error |-> "null" ]

\* What the handlers read of the state they closed over: assets.logo,
\* resultImage and the busy flags.
Closure(s) ==
  [ logo |-> s.logo, resultImage |-> s.resultImage, loading |-> s.loading,
    isGeneratingVariations |-> s.isGeneratingVariations,
    isVideoGenerating |-> s.isVideoGenerating,
    isMarketingGenerating |-> s.isMarketingGenerating ]

\* The session object the persistence effect writes.
Session(s) == [ logo |-> s.logo, productId |-> s.product ]

\* A handler call suspended at an await; old says that the logo changed
\* after the call started and that no call started since has completed.
Call(h, phase) == [ h |-> h, phase |-> phase, old |-> FALSE ]

\* The calls in flight are kept in a fixed order of handler, phase and
\* age: the order in which they started decides nothing.
CallKinds == << "generate", "variations", "video", "marketing", "upload", "uploadBg" >>

Rank(c) ==
  4 * (CHOOSE k \in 1..Len(CallKinds) : CallKinds[k] = c.h)
    + (IF c.phase = "calling" THEN 2 ELSE 0) + (IF c.old THEN 1 ELSE 0)

Enqueue(f, c) ==
  LET k == Cardinality({ i \in 1..Len(f) : Rank(f[i]) <= Rank(c) })
  IN SubSeq(f, 1, k) \o << c >> \o SubSeq(f, k + 1, Len(f))

RemoveAt(f, i) == SubSeq(f, 1, i - 1) \o SubSeq(f, i + 1, Len(f))

MarkOld(f) == [ i \in 1..Len(f) |-> [ f[i] EXCEPT !.old = TRUE ] ]

MarkNew(f) == [ i \in 1..Len(f) |-> [ f[i] EXCEPT !.old = FALSE ] ]

InFlight(h) == Cardinality({ i \in 1..Len(mf) : mf[i].h = h })

\* setResultImage(null); setVariations([]); setVideoUrl(null);
\* setMarketingData(null)
ResultsCleared(s) ==
  [ s EXCEPT !.resultImage = "null", !.variations = << >>,
             !.videoUrl = "null", !.marketingData = "null" ]

\* cleared: the logo changed and no call started since has completed.
LogoChanged == [ cleared |-> TRUE, reset |-> FALSE ]

ControllerInit ==
  /\ CoreOff
  /\ ChecksOff
  /\ rq = NoValue
  /\ rs = NoValue
  /\ rpc = "off"
  /\ cancelled = FALSE
  /\ ConcOff
  /\ HookOff
  /\ SuggestOff
  /\ FetchOff
  /\ ms \in { ControllerState(logo, product) :
                logo \in { "null", "logo" }, product \in { "p0", "p1" } }
  /\ mr = Closure(ms)
  /\ mf = << >>
  /\ mstore = Session(ms)
  /\ mdirty = FALSE
  /\ mg = [ cleared |-> FALSE, reset |-> FALSE ]

ControllerRest ==
  /\ UNCHANGED coreVars
  /\ UNCHANGED checkVars
  /\ UNCHANGED << rq, rs, rpc, cancelled, concVars, hookVars, suggestVars,
                  fetchVars >>

\* React renders: the handlers close over the current state, and the
\* persistence effect runs when assets, config or textOverlay changed.
Render ==
  /\ mr # Closure(ms) \/ mdirty
  /\ mr' = Closure(ms)
  /\ mdirty' = FALSE
  /\ mstore' = IF mdirty THEN Session(ms) ELSE mstore
  /\ UNCHANGED << ms, mf, mg >>
  /\ ControllerRest

\* handleAssetUpload(file, 'logo') up to await readImageFile(file).
StartLogoUpload ==
  /\ Len(mf) < MaxInFlight
  /\ ms' = [ ms EXCEPT !.error = "null" ]
  /\ mf' = Enqueue(mf, Call("upload", "calling"))
  /\ UNCHANGED << mr, mstore, mdirty, mg >>
  /\ ControllerRest

\* handleAssetUpload(file, 'bg') up to await readImageFile(file).
StartBgUpload ==
  /\ Len(mf) < MaxInFlight
  /\ ms' = [ ms EXCEPT !.error = "null" ]
  /\ mf' = Enqueue(mf, Call("uploadBg", "calling"))
  /\ UNCHANGED << mr, mstore, mdirty, mg >>
  /\ ControllerRest

\* handleGenerate up to await aiCore.generate(...).
HandleGenerate ==
  /\ ~( mr.logo = "null" \/ mr.loading )
  /\ Len(mf) < MaxInFlight
  /\ ms' = [ ms EXCEPT !.loading = TRUE, !.error = "null",
                       !.videoUrl = "null", !.marketingData = "null" ]
  /\ mf' = Enqueue(mf, Call("generate", "calling"))
  /\ UNCHANGED << mr, mstore, mdirty, mg >>
  /\ ControllerRest

\* handleGenerateVariations up to await Promise.all(...).
HandleGenerateVariations ==
  /\ ~( mr.logo = "null" \/ mr.isGeneratingVariations )
  /\ Len(mf) < MaxInFlight
  /\ ms' = [ ms EXCEPT !.isGeneratingVariations = TRUE, !.error = "null" ]
  /\ mf' = Enqueue(mf, Call("variations", "calling"))
  /\ UNCHANGED << mr, mstore, mdirty, mg >>
  /\ ControllerRest

\* handleGenerateVideo up to its first await: studio.hasSelectedApiKey()
\* when window.aistudio offers it, else aiCore.generateVideo(...).
HandleGenerateVideo ==
  /\ ~( mr.resultImage = "null" \/ mr.isVideoGenerating )
  /\ Len(mf) < MaxInFlight
  /\ \E studio \in BOOLEAN :
       IF studio
       THEN /\ mf' = Enqueue(mf, Call("video", "keycheck"))
            /\ UNCHANGED ms
       ELSE /\ mf' = Enqueue(mf, Call("video", "calling"))
            /\ ms' = [ ms EXCEPT !.isVideoGenerating = TRUE, !.error = "null" ]
  /\ UNCHANGED << mr, mstore, mdirty, mg >>
  /\ ControllerRest

\* studio.hasSelectedApiKey() or studio.openSelectKey() rejects: both
\* awaits stand before the try, so the handler ends and sets nothing.
KeyCheckRejects ==
  /\ \E i \in 1..Len(mf) :
       /\ mf[i].phase = "keycheck"
       /\ mf' = RemoveAt(mf, i)
  /\ UNCHANGED << ms, mr, mstore, mdirty, mg >>
  /\ ControllerRest

\* handleGenerateVideo from the key check to await aiCore.generateVideo.
KeyChecked ==
  /\ \E i \in 1..Len(mf) :
       /\ mf[i].phase = "keycheck"
       /\ mf' = Enqueue(RemoveAt(mf, i), [ mf[i] EXCEPT !.phase = "calling" ])
  /\ ms' = [ ms EXCEPT !.isVideoGenerating = TRUE, !.error = "null" ]
  /\ UNCHANGED << mr, mstore, mdirty, mg >>
  /\ ControllerRest

\* handleGenerateMarketing up to await aiCore.generateMarketingCopy(...).
HandleGenerateMarketing ==
  /\ ~( mr.resultImage = "null" \/ mr.isMarketingGenerating )
  /\ Len(mf) < MaxInFlight
  /\ ms' = [ ms EXCEPT !.isMarketingGenerating = TRUE, !.error = "null" ]
  /\ mf' = Enqueue(mf, Call("marketing", "calling"))
  /\ UNCHANGED << mr, mstore, mdirty, mg >>
  /\ ControllerRest

\* What the awaited call of a handler can settle with.
SettleOutcomes(h) ==
  CASE h = "generate" -> { "image", "no image", "error" }
    [] h = "variations" -> { "images", "no image" }
    [] h = "video" -> { "url", "null", "error" }
    [] h = "marketing" -> { "data", "error" }
    [] h = "upload" -> { "base64", "error" }
    [] h = "uploadBg" -> { "base64", "error" }

\* The state after the rest of the handler (try, catch, finally) has run.
AfterSettle(s, h, o) ==
  LET caught == IF o = "error" THEN [ s EXCEPT !.error = "msg" ] ELSE s IN
  CASE h = "generate" ->
         [ (IF o = "image" THEN [ s EXCEPT !.resultImage = "img" ] ELSE caught)
             EXCEPT !.loading = FALSE ]
    [] h = "variations" ->
         [ s EXCEPT !.variations = IF o = "images" THEN << "var" >> ELSE << >>,
                    !.isGeneratingVariations = FALSE ]
    [] h = "video" ->
         [ (IF o = "url" THEN [ s EXCEPT !.videoUrl = "url" ] ELSE caught)
             EXCEPT !.isVideoGenerating = FALSE ]
    [] h = "marketing" ->
         [ (IF o = "data" THEN [ s EXCEPT !.marketingData = "data" ] ELSE caught)
             EXCEPT !.isMarketingGenerating = FALSE ]
    [] h = "upload" ->
         IF o = "base64" THEN ResultsCleared([ s EXCEPT !.logo = "logo" ])
         ELSE caught
    [] h = "uploadBg" -> caught

\* The awaited call of a handler settles and the handler runs to its end.
Settle ==
  \E i \in 1..Len(mf) :
    /\ mf[i].phase = "calling"
    /\ \E o \in SettleOutcomes(mf[i].h) :
         /\ ms' = AfterSettle(ms, mf[i].h, o)
         /\ IF mf[i].h = "upload"
            THEN IF o = "base64"
                 THEN /\ mf' = MarkOld(RemoveAt(mf, i))
                      /\ mdirty' = TRUE
                      /\ mg' = LogoChanged
                 ELSE /\ mf' = RemoveAt(mf, i)
                      /\ UNCHANGED << mdirty, mg >>
            ELSE IF mf[i].h = "uploadBg"
            THEN /\ mf' = RemoveAt(mf, i)
                 /\ IF o = "base64"
                    THEN /\ mdirty' = TRUE
                         /\ mg' = [ mg EXCEPT !.reset = FALSE ]
                    ELSE UNCHANGED << mdirty, mg >>
            ELSE IF mf[i].old
            THEN /\ mf' = RemoveAt(mf, i)
                 /\ UNCHANGED << mdirty, mg >>
            ELSE /\ mf' = MarkNew(RemoveAt(mf, i))
                 /\ mg' = [ mg EXCEPT !.cleared = FALSE ]
                 /\ UNCHANGED mdirty
    /\ UNCHANGED << mr, mstore >>
    /\ ControllerRest

\* clearLogo()
ClearLogo ==
  /\ ms' = ResultsCleared([ ms EXCEPT !.logo = "null" ])
  /\ mf' = MarkOld(mf)
  /\ mdirty' = TRUE
  /\ mg' = LogoChanged
  /\ UNCHANGED << mr, mstore >>
  /\ ControllerRest

\* clearBg()
ClearBg ==
  /\ mdirty' = TRUE
  /\ mg' = [ mg EXCEPT !.reset = FALSE ]
  /\ UNCHANGED << ms, mr, mf, mstore >>
  /\ ControllerRest

\* onReset(): clearLogo(), the other setters, localStorage.removeItem.
OnReset ==
  /\ ms' = [ ResultsCleared([ ms EXCEPT !.logo = "null" ])
               EXCEPT !.error = "null", !.product = "p0" ]
  /\ mf' = MarkOld(mf)
  /\ mdirty' = TRUE
  /\ mstore' = NoValue
  /\ mg' = [ LogoChanged EXCEPT !.reset = TRUE ]
  /\ UNCHANGED mr
  /\ ControllerRest

\* setSelectedProduct(p)
SetSelectedProduct ==
  /\ \E p \in { "p0", "p1" } : ms' = [ ms EXCEPT !.product = p ]
  /\ mdirty' = TRUE
  /\ mg' = [ mg EXCEPT !.reset = FALSE ]
  /\ UNCHANGED << mr, mf, mstore >>
  /\ ControllerRest

\* setStylePreference(s): a new config object.
SetStylePreference ==
  /\ mdirty' = TRUE
  /\ mg' = [ mg EXCEPT !.reset = FALSE ]
  /\ UNCHANGED << ms, mr, mf, mstore >>
  /\ ControllerRest

\* setTextOverlay(t): a new textOverlay object.
SetTextOverlay ==
  /\ mdirty' = TRUE
  /\ mg' = [ mg EXCEPT !.reset = FALSE ]
  /\ UNCHANGED << ms, mr, mf, mstore >>
  /\ ControllerRest

\* raiseError(msg)
RaiseError ==
  /\ ms' = [ ms EXCEPT !.error = "msg" ]
  /\ UNCHANGED << mr, mf, mstore, mdirty, mg >>
  /\ ControllerRest

\* clearActiveError()
ClearActiveError ==
  /\ ms' = [ ms EXCEPT !.error = "null" ]
  /\ UNCHANGED << mr, mf, mstore, mdirty, mg >>
  /\ ControllerRest

ControllerNext ==
  \/ Render
  \/ StartLogoUpload
  \/ StartBgUpload
  \/ KeyCheckRejects
  \/ ClearBg
  \/ SetStylePreference
  \/ SetTextOverlay
  \/ RaiseError
  \/ ClearActiveError
  \/ HandleGenerate
  \/ HandleGenerateVariations
  \/ HandleGenerateVideo
  \/ KeyChecked
  \/ HandleGenerateMarketing
  \/ Settle
  \/ ClearLogo
  \/ OnReset
  \/ SetSelectedProduct

ControllerSpec == ControllerInit /\ [][ControllerNext]_vars

\* ------------------------------------------------------------------------
\* Backend fetch wrapper: apiFetch, handleApiError, api (src/unnamed/part_004)
\* ------------------------------------------------------------------------
Endpoints == { "generate", "generateVideo", "generateMarketing", "publish" }

\* What fetch settles with: a rejection (network failure), or a Response
\* with its status, its statusText, whether its body parses as JSON, and
\* the message and type of the parsed body ("" when the key is not there).
NetworkFailure == [ t |-> "network" ]

HttpResponse(status, parses, message, type) ==
  [ t |-> "http", status |-> status, statusText |-> << "status text" >>,
    parses |-> parses, message |-> message, type |-> type ]

HttpStatuses == { 200, 400, 401, 403, 404, 429, 500, 503 }

FetchReplies ==
  { NetworkFailure } \cup
  { HttpResponse(status, parses, message, type) :
      status \in HttpStatuses, parses \in BOOLEAN,
      message \in { << >>, << "backend message" >> },
      type \in { "", "SAFETY_VIOLATION" } }

\* response.ok
ResponseOk(r) == r.status >= 200 /\ r.status <= 299

\* await response.json().catch(() => ({ message: response.statusText }))
ErrorBody(r) ==
  IF r.parses THEN [ message |-> r.message, type |-> r.type ]
  ELSE [ message |-> r.statusText, type |-> "" ]

\* handleApiError(status, body): the error it throws.
handleApiError(status, body) ==
  LET message == IF body.message # << >> THEN body.message
                 ELSE << "API error with status", status >>
  IN CASE status = 401 -> AuthenticationError(message)
       [] status = 403 -> AuthenticationError(message)
       [] status = 429 -> RateLimitError
       [] status = 400 ->
            IF body.type = "SAFETY_VIOLATION" THEN SafetyError(message)
            ELSE ApiError(message, status)
       [] status = 500 -> ApiError(message, status)
       [] status = 503 -> ApiError(<< "Service unavailable." >>, status)
       [] OTHER -> ApiError(message, status)

Resolved(value) == [ kind |-> "resolved", value |-> value, error |-> NoValue ]
Rejected(error) == [ kind |-> "rejected", value |-> NoValue, error |-> error ]
Caught(error) == [ kind |-> "caught", value |-> NoValue, error |-> error ]

\* The try block of apiFetch: what it returns, or what its catch clause
\* receives.  return response.json() is not awaited inside the try, so a
\* body that does not parse rejects the call past the catch clause.
TryFetch(r) ==
  IF r.t = "network" THEN Caught(RawFailure("object", << "Failed to fetch" >>, 0, 0))
  ELSE IF ~ResponseOk(r) THEN Caught(handleApiError(r.status, ErrorBody(r)))
  ELSE IF r.parses THEN Resolved([ from |-> "backend", endpoint |-> "" ])
  ELSE Rejected(RawFailure("object", << "Unexpected token" >>, 0, 0))

\* MOCK_API[endpoint]?.(options.body): the mock is given the JSON text of
\* the request as its first argument; the mock of generate throws when that
\* text includes "fail".  0 stands for the default code of ApiError.
MockApi(endpoint, bodyHasFail) ==
  IF endpoint = "generate" /\ bodyHasFail
  THEN Rejected(ApiError(<< "Generation failed as requested for testing." >>, 0))
  ELSE Resolved([ from |-> "mock", endpoint |-> endpoint ])

FetchInit ==
  /\ CoreOff
  /\ ChecksOff
  /\ rq = NoValue
  /\ rs = NoValue
  /\ rpc = "off"
  /\ cancelled = FALSE
  /\ ConcOff
  /\ HookOff
  /\ SuggestOff
  /\ MerchOff
  /\ fx \in [ t : { "call" }, endpoint : Endpoints, bodyHasFail : BOOLEAN,
              reply : FetchReplies ]
  /\ fo = NoValue
  /\ fpc = "fetching"

FetchRest ==
  /\ UNCHANGED coreVars
  /\ UNCHANGED checkVars
  /\ UNCHANGED << rq, rs, rpc, cancelled, concVars, hookVars, suggestVars,
                  merchVars >>

\* fetch settles and the try block of apiFetch runs.
FetchSettles ==
  /\ fpc = "fetching"
  /\ fo' = TryFetch(fx.reply)
  /\ fpc' = IF TryFetch(fx.reply).kind = "caught" THEN "catch" ELSE "done"
  /\ UNCHANGED fx
  /\ FetchRest

\* The catch clause of apiFetch: the mock answers in place of the error.
CatchFallback ==
  /\ fpc = "catch"
  /\ fo' = MockApi(fx.endpoint, fx.bodyHasFail)
  /\ fpc' = "done"
  /\ UNCHANGED fx
  /\ FetchRest

FetchNext == FetchSettles \/ CatchFallback

FetchSpec == FetchInit /\ [][FetchNext]_vars

\* ------------------------------------------------------------------------
\* The error taxonomy of the design, read off the classified error
\* ------------------------------------------------------------------------
\* The taxonomy member a classified error stands for.
Kind(e) ==
  CASE e.cls = "RateLimitError" -> "RateLimited"
    [] e.cls = "AuthenticationError" -> "AuthenticationFailed"
    [] e.cls = "SafetyError" -> "SafetyBlocked"
    [] e.cls = "ApiError" /\ e.message[1] = "MODEL_UNAVAILABLE:" -> "ModelUnavailable"
    [] e.cls = "ApiError" /\ e.message[1] = "SYSTEM_OVERLOAD:" -> "ServerOverloaded"
    [] e.cls = "ApiError" /\ e.message[1] = "NETWORK_ERROR:" -> "NetworkUnreachable"
    [] e.cls = "ApiError" /\ e.message[1] \in { "INVALID_IMAGE:", "INVALID_REQUEST:" }
         -> "InvalidRequest"
    [] e.cls = "ApiError" /\ e.message[1] = "GENAI_ERROR:" -> "Unknown"
    [] OTHER -> "Other"

IsClassifiedError(e) ==
  e.t = "app"
    /\ e.cls \in { "RateLimitError", "AuthenticationError", "SafetyError", "ApiError" }

\* The i-th failed attempt ended generate: its error was raised with no
\* sleep and no attempt after it.
RaisedAt(i) ==
  /\ i = Len(failures)
  /\ pc = "done"
  /\ outcome.kind = "raised"
  /\ outcome.error = failures[i]
  /\ sleeps = i - 1
  /\ keyReads = i

\* The i-th failed attempt was retried: while attempts remained generate
\* slept and went on, and it raised the error only as the last attempt's.
RetriedAt(i) ==
  /\ i <= retries + 1
  /\ sleeps >= (IF i <= retries THEN i ELSE retries)
  /\ i <= retries =>
       \/ i < Len(failures)
       \/ pc \in { "sleeping", "attempt", "calling" }
       \/ pc = "done" /\ outcome.kind = "returned"
  /\ i = retries + 1 =>
       /\ pc = "done"
       /\ outcome.kind = "raised"
       /\ outcome.error = failures[i]
       /\ sleeps = retries

\* ------------------------------------------------------------------------
\* Properties
\* ------------------------------------------------------------------------
TransientKinds == { "RateLimited", "ServerOverloaded", "NetworkUnreachable" }

\* C1: when every attempt of generate fails with a RateLimited,
\* ServerOverloaded or NetworkUnreachable failure, generate makes exactly
\* maxRetries + 1 attempts, one executor call each, and raises the classified
\* error of the last one; it never makes more than maxRetries + 1 attempts.
C1_ExhaustsRetries ==
  op = "generate" =>
    /\ Len(failures) <= retries + 1
    /\ keyReads <= retries + 1
    /\ calls <= keyReads
    /\ ( /\ pc = "done"
         /\ outcome.kind = "raised"
         /\ \A i \in 1..Len(failures) : Kind(failures[i]) \in TransientKinds )
       => /\ Len(failures) = retries + 1
          /\ keyReads = retries + 1
          /\ calls = retries + 1
          /\ outcome.error = failures[Len(failures)]

C1_Witness ==
  /\ op = "generate"
  /\ pc = "done"
  /\ retries = 2
  /\ calls = 3
  /\ Len(failures) = 3
  /\ \A i \in 1..3 : Kind(failures[i]) = "ServerOverloaded"
  /\ outcome.kind = "raised"
  /\ Kind(outcome.error) = "ServerOverloaded"

NeverRetriedKind(e) ==
  \/ Kind(e) \in { "AuthenticationFailed", "SafetyBlocked" }
  \/ Kind(e) = "InvalidRequest" /\ e.statusCode >= 400 /\ e.statusCode < 500

\* C2: an attempt of generate, the first or a later one, that fails with
\* AuthenticationFailed, SafetyBlocked or InvalidRequest with a client-error
\* code ends generate: that error is raised with no sleep and no attempt
\* after it, whatever maxRetries is.
C2_NonRetryableRaisedAtOnce ==
  op = "generate" =>
    \A i \in 1..Len(failures) : NeverRetriedKind(failures[i]) => RaisedAt(i)

C2_Witness ==
  /\ op = "generate"
  /\ retries = MaxRetriesBound
  /\ Len(failures) = 2
  /\ Kind(failures[1]) = "ServerOverloaded"
  /\ Kind(failures[2]) = "AuthenticationFailed"
  /\ calls = 2
  /\ sleeps = 1
  /\ pc = "done"
  /\ outcome.kind = "raised"

HasInlineImage(r) ==
  /\ r.candidates # << >>
  /\ \E i \in 1..Len(r.candidates[1].parts) :
       r.candidates[1].parts[i].inline /\ r.candidates[1].parts[i].data # ""


\* C5: when the first k attempts of generate fail with retried failures and
\* attempt k+1 succeeds (k <= maxRetries), generate returns the result of
\* attempt k+1, with a non-empty image when the response carries an inline
\* image, after exactly k sleeps and k+1 executor calls, and raises nothing.
C5_SucceedsAfterRetries ==
  /\ ( op = "generate" /\ reply.t = "response" /\ parseResponse(reply).ok
         /\ pc # "calling" )
       => /\ pc = "done"
          /\ outcome.kind = "returned"
          /\ outcome.error.t = "none"
          /\ outcome.value.text = reply.text
          /\ outcome.value.finishReason = reply.candidates[1].finishReason
          /\ HasInlineImage(reply) => outcome.value.image # << >>
  /\ ( op = "generate" /\ pc = "done" /\ outcome.kind = "returned" )
       => /\ reply.t = "response"
          /\ Len(failures) <= retries
          /\ sleeps = Len(failures)
          /\ calls = Len(failures) + 1
          /\ keyReads = Len(failures) + 1

\* The first part with inlineData of the first candidate carries bytes.
FirstInlinePartHasBytes(r) ==
  /\ r.candidates # << >>
  /\ FindInlinePart(r.candidates[1].parts) # 0
  /\ r.candidates[1].parts[FindInlinePart(r.candidates[1].parts)].data # ""

\* The part that the code keeps: the result of attempt k+1 is returned
\* after k sleeps and k+1 executor calls, and its image is set exactly
\* when the first part with inlineData carries bytes.
SucceedsWithFirstInlinePart ==
  /\ ( op = "generate" /\ reply.t = "response" /\ parseResponse(reply).ok
         /\ pc # "calling" )
       => /\ pc = "done"
          /\ outcome.kind = "returned"
          /\ outcome.error.t = "none"
          /\ outcome.value.text = reply.text
          /\ outcome.value.finishReason = reply.candidates[1].finishReason
          /\ FirstInlinePartHasBytes(reply) <=> outcome.value.image # << >>
  /\ ( op = "generate" /\ pc = "done" /\ outcome.kind = "returned" )
       => /\ reply.t = "response"
          /\ Len(failures) <= retries
          /\ sleeps = Len(failures)
          /\ calls = Len(failures) + 1
          /\ keyReads = Len(failures) + 1

\* Two retried failures, then a response with one inline image part: the
\* example of the design, which the code meets.
SucceededWithImageAfterRetries ==
  /\ op = "generate"
  /\ retries = 2
  /\ Len(failures) = 2
  /\ \A i \in 1..2 : Kind(failures[i]) = "ServerOverloaded"
  /\ sleeps = 2
  /\ calls = 3
  /\ pc = "done"
  /\ outcome.kind = "returned"
  /\ outcome.value.image = << "data:image/png;base64,", "iVBOR" >>

\* Two retried failures, then a response whose second inlineData part
\* carries the bytes: the result comes back without an image.
SucceededWithoutImageAfterRetries ==
  /\ op = "generate"
  /\ retries = 2
  /\ Len(failures) = 2
  /\ \A i \in 1..2 : Kind(failures[i]) = "ServerOverloaded"
  /\ sleeps = 2
  /\ calls = 3
  /\ pc = "done"
  /\ outcome.kind = "returned"
  /\ HasInlineImage(reply)
  /\ outcome.value.image = << >>

\* C6: every terminated call of generate, generateVideo and
\* generateMarketingCopy yields a returned result or a raised classified
\* error, exactly one of the two; a call that has not terminated has
\* yielded nothing.
C6_ResultOrClassifiedError ==
  /\ pc = "done" =>
       \/ /\ outcome.kind = "returned"
          /\ outcome.error.t = "none"
       \/ /\ outcome.kind = "raised"
          /\ outcome.value.t = "none"
          /\ IsClassifiedError(outcome.error)
  /\ pc # "done" => outcome = NoOutcome

C6_Witness ==
  /\ op = "marketing"
  /\ pc = "done"
  /\ Len(failures) = DEFAULT_RETRIES + 1
  /\ outcome.kind = "raised"
  /\ Kind(outcome.error) = "NetworkUnreachable"

MissingKeyRaised(o) ==
  /\ o.kind = "raised"
  /\ o.error = AuthenticationError(<< "API_KEY_MISSING:" >>)
  /\ Kind(o.error) = "AuthenticationFailed"

\* C7: with the credential absent at the first attempt, generate raises
\* AuthenticationFailed on that attempt with no provider call and no sleep,
\* whatever maxRetries is; generateVideo raises it without submitting a job.
C7_MissingCredential ==
  [][ /\ ( pc = "attempt" /\ attempt = 0 /\ env = "" )
        => /\ pc' = "done"
           /\ MissingKeyRaised(outcome')
           /\ keyReads' = 1
           /\ calls' = 0
           /\ sleeps' = 0
           /\ attempt' = 0
      /\ ( pc = "idle" /\ env = "" /\ op' = "video" )
        => /\ pc' = "done"
           /\ MissingKeyRaised(outcome')
           /\ calls' = 0
           /\ sleeps' = 0
           /\ fetches' = 0 ]_vars

C7_Witness ==
  /\ op = "generate"
  /\ retries = MaxRetriesBound
  /\ env = ""
  /\ pc = "done"
  /\ keyReads = 1
  /\ calls = 0
  /\ sleeps = 0
  /\ MissingKeyRaised(outcome)

\* C8: the classifier is idempotent: classifying the result of a
\* classification gives the same error (class, message, code), and an
\* already classified error is returned unchanged.
C8_ClassifyIdempotent ==
  /\ cpc = "reclassified" => c2 = c1
  /\ ( cpc # "raw" /\ cx.t = "app" ) => c1 = cx

C8_Witness ==
  /\ cpc = "reclassified"
  /\ cx.t = "raw"
  /\ cx.status = 403
  /\ cx.message = << "billing" >>
  /\ c2 = AuthenticationError(<< "BILLING_REQUIRED:", "Project", "billing", "enabled" >>)

\* The lower-cased message of the raw failure mentions the keyword.
Mentions(x, kw) == includes(toLowerCase(RawMessageOf(x)), kw)

\* The status normalizeError reads from a raw failure is s: error.status, or
\* error.response.status when error.status is absent.
HasStatus(x, s) ==
  /\ x.t = "raw"
  /\ x.shape = "object"
  /\ \/ x.status = s
     \/ x.status = 0 /\ x.respStatus = s

\* C9: every raw failure whose status is 429 classifies as RateLimited,
\* whatever its message says.
C9_Status429RateLimited ==
  ( cpc # "raw" /\ HasStatus(cx, 429) ) =>
    c1 = RateLimitError /\ Kind(c1) = "RateLimited"

C9_Witness ==
  /\ cpc = "classified"
  /\ cx.t = "raw"
  /\ cx.status = 429
  /\ cx.message = << "api key", "billing" >>
  /\ Kind(c1) = "RateLimited"

BillingError == AuthenticationError(<< "BILLING_REQUIRED:", "Project", "billing", "enabled" >>)

\* C10 as claimed: every raw failure with status 403 whose message mentions
\* billing classifies as AuthenticationFailed with the billing message,
\* whatever else the message says.
C10_Billing403Always ==
  ( cpc # "raw" /\ HasStatus(cx, 403) /\ Mentions(cx, "billing") ) =>
    c1 = BillingError

\* C10 as amended: a raw failure with status 403 whose message mentions
\* billing classifies as AuthenticationFailed with the billing message unless
\* an earlier rule matches the message: with 429, quota or exhausted in it
\* the result is RateLimited, else with api key or unauthenticated in it the
\* result is AuthenticationFailed with the invalid-key message.
C10_Billing403UnlessEarlierRule ==
  ( cpc # "raw" /\ HasStatus(cx, 403) /\ Mentions(cx, "billing") ) =>
    IF Mentions(cx, "429") \/ Mentions(cx, "quota") \/ Mentions(cx, "exhausted")
    THEN Kind(c1) = "RateLimited"
    ELSE IF Mentions(cx, "api key") \/ Mentions(cx, "unauthenticated")
    THEN c1 = AuthenticationError(<< "INVALID_API_KEY:", "API key" >>)
    ELSE c1 = BillingError /\ Kind(c1) = "AuthenticationFailed"

C10_Witness ==
  /\ cpc = "classified"
  /\ cx.t = "raw"
  /\ cx.status = 403
  /\ cx.message = << "region", "Billing" >>
  /\ c1 = BillingError

\* The kind the design's nine-rule table gives a raw failure, first match
\* first; textual429 says whether a message containing "429" triggers rule 1.
TableKind(x, textual429) ==
  LET st == IF x.shape # "object" THEN 0
            ELSE IF x.status # 0 THEN x.status ELSE x.respStatus
      has(kw) == Mentions(x, kw)
  IN CASE st = 429 \/ has("quota") \/ has("exhausted")
            \/ (textual429 /\ has("429")) -> "RateLimited"
       [] OTHER ->
     CASE st = 401 \/ has("api key") \/ has("unauthenticated")
            -> "AuthenticationFailed"
       [] OTHER ->
     CASE st = 403 \/ has("permission denied") -> "AuthenticationFailed"
       [] OTHER ->
     CASE has("safety") \/ has("blocked") \/ has("harmful") -> "SafetyBlocked"
       [] OTHER ->
     CASE st = 404 \/ has("not found") -> "ModelUnavailable"
       [] OTHER ->
     CASE st \in {500, 502, 503, 504} \/ has("overloaded") \/ has("busy")
            \/ has("capacity") -> "ServerOverloaded"
       [] OTHER ->
     CASE has("fetch") \/ has("network") \/ has("connection")
            -> "NetworkUnreachable"
       [] OTHER ->
     CASE st = 400 \/ has("invalid argument") -> "InvalidRequest"
       [] OTHER -> "Unknown"

\* C11 as claimed: every raw failure classifies to the kind of the nine-rule
\* table, in which rule 1 is triggered by status 429, quota or exhausted
\* only.
C11_TableAsWritten ==
  ( cpc # "raw" /\ cx.t = "raw" ) => Kind(c1) = TableKind(cx, FALSE)

\* C11 as amended: every raw failure classifies to the kind of the
\* nine-rule table in which rule 1 is also triggered by a message that
\* contains "429".
C11_TableWithTextual429 ==
  ( cpc # "raw" /\ cx.t = "raw" ) => Kind(c1) = TableKind(cx, TRUE)

C11_Witness ==
  /\ cpc = "classified"
  /\ cx.t = "raw"
  /\ cx.shape = "object"
  /\ cx.status = 0 /\ cx.respStatus = 0
  /\ cx.message = << "429", "teapot" >>
  /\ Kind(c1) = "RateLimited"

\* ------------------------------------------------------------------------
\* C12: for every response with zero candidates and no prompt-level block,
\* parseResponse raises a classified error (the zero-candidates error) and
\* returns no result, not even a partly filled one.
\* ------------------------------------------------------------------------
C12_ZeroCandidatesRaised ==
  (ppc = "parsed" /\ px.candidates = << >> /\ px.blockReason = "")
    => /\ ~pr.ok
       /\ IsClassifiedError(pr.error)
       /\ pr.error = ApiError(<< "ZERO_CANDIDATES:" >>, 500)

C12_Witness ==
  /\ ppc = "parsed"
  /\ px.candidates = << >>
  /\ px.blockReason = ""
  /\ px.text = ValidRecordText
  /\ ~pr.ok
  /\ pr.error.message = << "ZERO_CANDIDATES:" >>

\* ------------------------------------------------------------------------
\* C13: what generate does with a response that has zero candidates.
\* ------------------------------------------------------------------------
\* The error parseResponse throws for a response without candidates.
IsZeroCandidates(e) == e = ApiError(<< "ZERO_CANDIDATES:" >>, 500)

\* C13: a response with zero candidates is terminal for
\* generate: the attempt that receives it raises the zero-candidates error
\* with no backoff sleep and no further attempt, even when retries remain.
C13_ZeroCandidatesTerminal ==
  op = "generate" =>
    \A i \in 1..Len(failures) : IsZeroCandidates(failures[i]) => RaisedAt(i)

\* What the code does: the zero-candidates error carries code 500, so
\* generate retries it like any other 5xx failure: it sleeps and goes on
\* while retries remain and raises it only as the error of the last attempt.
ZeroCandidatesRetried ==
  op = "generate" =>
    \A i \in 1..Len(failures) :
      IsZeroCandidates(failures[i]) =>
        failures[i].statusCode = 500 /\ RetriedAt(i)

\* Two responses without candidates and without a prompt-level block: each
\* was followed by a backoff sleep.
ZeroCandidatesSleptTwice ==
  /\ op = "generate"
  /\ retries = MaxRetriesBound
  /\ reply.t = "response"
  /\ reply.candidates = << >>
  /\ reply.blockReason = ""
  /\ Len(failures) = 2
  /\ IsZeroCandidates(failures[1])
  /\ IsZeroCandidates(failures[2])
  /\ calls = 2
  /\ sleeps = 2
  /\ pc = "sleeping"

\* ------------------------------------------------------------------------
\* C14: for every response whose first candidate has finish reason
\* RECITATION or SAFETY (and no prompt-level block), parseResponse raises
\* SafetyBlocked, with the copyright message for RECITATION, and generate
\* raises that error without retrying.
\* ------------------------------------------------------------------------
\* The response is not blocked at prompt level and has a first candidate.
HasFirstCandidate(r) ==
  r.t = "response" /\ r.blockReason = "" /\ r.candidates # << >>

FinishedBySafety(r) ==
  HasFirstCandidate(r) /\ r.candidates[1].finishReason \in { "RECITATION", "SAFETY" }

SafetyFinishError(r) ==
  IF r.candidates[1].finishReason = "RECITATION"
  THEN SafetyError(<< "COPYRIGHT_BLOCK:" >>)
  ELSE SafetyError(<< "GENERATION_BLOCKED:", "safety", "imagery" >>)

C14_SafetyFinishRaisedUnretried ==
  /\ pc = "idle" =>
       \A r \in ParsedResponses :
         FinishedBySafety(r) =>
           /\ parseResponse(r) = Thrown(SafetyFinishError(r))
           /\ Kind(SafetyFinishError(r)) = "SafetyBlocked"
  /\ (op = "generate" /\ FinishedBySafety(reply)) =>
       /\ pc = "done"
       /\ outcome = RaisedTo(SafetyFinishError(reply))
       /\ Kind(outcome.error) = "SafetyBlocked"
       /\ RaisedAt(Len(failures))

C14_Witness ==
  /\ op = "generate"
  /\ retries = MaxRetriesBound
  /\ FinishedBySafety(reply)
  /\ reply.candidates[1].finishReason = "RECITATION"
  /\ Len(failures) = 2
  /\ Kind(failures[1]) = "ServerOverloaded"
  /\ failures[2].message = << "COPYRIGHT_BLOCK:" >>
  /\ calls = 2
  /\ sleeps = 1
  /\ pc = "done"
  /\ outcome.kind = "raised"

\* ------------------------------------------------------------------------
\* C15: responses whose first candidate has a finish reason that is present
\* and is none of STOP, MAX_TOKENS, SAFETY, RECITATION ("OTHER" included).
\* ------------------------------------------------------------------------
FinishedOtherwise(r) ==
  /\ HasFirstCandidate(r)
  /\ r.candidates[1].finishReason \notin { "", "STOP", "MAX_TOKENS", "SAFETY", "RECITATION" }

\* The message names the finish reason.
NamesReason(e, fr) == \E k \in 1..Len(e.message) : e.message[k] = fr

\* The error the code throws for such a response.
OtherFinishError(r) ==
  IF r.candidates[1].finishReason = "OTHER"
  THEN ApiError(<< "GENERATION_FAILED:" >>, 500)
  ELSE ApiError(<< "GENERATION_STOPPED:", r.candidates[1].finishReason >>, 500)

\* A failure of generate that is such an error.
IsOtherFinishError(e) ==
  e.cls = "ApiError" /\ e.message[1] \in { "GENERATION_FAILED:", "GENERATION_STOPPED:" }

\* C15: for every such response parseResponse raises
\* InvalidRequest with a message naming the reason, and generate raises it
\* after that single attempt, with no retry.
C15_OtherFinishInvalidRequestUnretried ==
  /\ pc = "idle" =>
       \A r \in ParsedResponses :
         FinishedOtherwise(r) =>
           /\ ~parseResponse(r).ok
           /\ Kind(parseResponse(r).error) = "InvalidRequest"
           /\ NamesReason(parseResponse(r).error, r.candidates[1].finishReason)
  /\ op = "generate" =>
       \A i \in 1..Len(failures) :
         IsOtherFinishError(failures[i]) =>
           Kind(failures[i]) = "InvalidRequest" /\ RaisedAt(i)

\* What the code does: for every such response parseResponse raises an API
\* error with code 500, which is none of the taxonomy's client errors; its
\* message names the reason unless the reason is "OTHER", which gets a fixed
\* message; generate retries the error while retries remain and raises it
\* only as the error of the last attempt.
OtherFinishServerErrorRetried ==
  /\ pc = "idle" =>
       \A r \in ParsedResponses :
         FinishedOtherwise(r) =>
           /\ parseResponse(r) = Thrown(OtherFinishError(r))
           /\ OtherFinishError(r).cls = "ApiError"
           /\ OtherFinishError(r).statusCode = 500
           /\ Kind(OtherFinishError(r)) # "InvalidRequest"
           /\ NamesReason(OtherFinishError(r), r.candidates[1].finishReason)
                <=> r.candidates[1].finishReason # "OTHER"
  /\ (op = "generate" /\ FinishedOtherwise(reply)) =>
       \E i \in 1..Len(failures) : failures[i] = OtherFinishError(reply)
  /\ op = "generate" =>
       \A i \in 1..Len(failures) :
         IsOtherFinishError(failures[i]) => RetriedAt(i)

\* Finish reasons LANGUAGE and OTHER in turn: each was followed by a
\* backoff sleep.
OtherFinishSleptTwice ==
  /\ op = "generate"
  /\ retries = MaxRetriesBound
  /\ FinishedOtherwise(reply)
  /\ reply.candidates[1].finishReason = "OTHER"
  /\ Len(failures) = 2
  /\ failures[1] = ApiError(<< "GENERATION_STOPPED:", "LANGUAGE" >>, 500)
  /\ failures[2] = ApiError(<< "GENERATION_FAILED:" >>, 500)
  /\ calls = 2
  /\ sleeps = 2
  /\ pc = "sleeping"

\* ------------------------------------------------------------------------
\* C16: when the video job never reports done, generateVideo raises the
\* timeout error (code 408, unchanged by classification) after exactly
\* MAX_POLLS sleeps and MAX_POLLS status re-fetches.
\* ------------------------------------------------------------------------
TimeoutError == ApiError(<< "TIMEOUT:" >>, 408)

TimedOut ==
  op = "video" /\ pc = "done" /\ outcome.kind = "raised"
    /\ outcome.error.message[1] = "TIMEOUT:"

C16_TimeoutAfterMaxPolls ==
  TimedOut =>
    /\ outcome.error = TimeoutError
    /\ sleeps = MAX_POLLS
    /\ fetches = MAX_POLLS

\* What the loop does: the budget test reads the counter before it is
\* incremented, so one more sleep and re-fetch happen before the timeout.
TimeoutAfterOnePollMore ==
  TimedOut =>
    /\ outcome.error = TimeoutError
    /\ sleeps = MAX_POLLS + 1
    /\ fetches = MAX_POLLS + 1

\* ------------------------------------------------------------------------
\* C17: if the video job first reports done on the k-th status re-fetch,
\* 1 <= k <= MAX_POLLS, generateVideo returns the job's outcome and not a
\* timeout after exactly k sleeps and k re-fetches, and re-fetches no more
\* once it has seen done; if the job is done in the submission response it
\* returns with no sleep and no re-fetch.
\* ------------------------------------------------------------------------
\* generateVideo has been handed an operation that reports done.
SawDone == op = "video" /\ reply.t = "operation" /\ reply.done

JobOutcome(operation) ==
  IF operation.uri # "" THEN ReturnedTo(<< operation.uri, "&key=", apiKey >>)
  ELSE ReturnedTo("null")

ReturnedOnDone ==
  (SawDone /\ fetches <= MAX_POLLS) =>
    /\ pc = "done"
    /\ outcome = JobOutcome(reply)
    /\ sleeps = fetches
    /\ calls = 1

NothingAfterDone == SawDone => UNCHANGED << sleeps, fetches, calls, reply >>

C17_ReturnsOnKthFetch == []ReturnedOnDone /\ [][NothingAfterDone]_vars

C17_Witness ==
  /\ SawDone
  /\ fetches = MAX_POLLS
  /\ sleeps = MAX_POLLS
  /\ pc = "done"
  /\ outcome.kind = "returned"
  /\ outcome.value # "null"

\* The submission response already reports done.
C17_WitnessAtSubmit ==
  /\ SawDone
  /\ fetches = 0
  /\ sleeps = 0
  /\ pc = "done"
  /\ outcome.kind = "returned"

\* ------------------------------------------------------------------------
\* C18: when the video job is done but its result carries no URI,
\* generateVideo returns null and raises no error; it returns a non-null
\* string only when the finished job carries a result URI.
\* ------------------------------------------------------------------------
C18_NullWithoutUri ==
  /\ (SawDone /\ reply.uri = "") =>
       pc = "done" /\ outcome = ReturnedTo("null")
  /\ (op = "video" /\ pc = "done" /\ outcome.kind = "returned"
        /\ outcome.value # "null") =>
       /\ SawDone
       /\ reply.uri # ""
       /\ outcome.value = << reply.uri, "&key=", apiKey >>

C18_Witness ==
  /\ SawDone
  /\ reply.uri = ""
  /\ fetches = 2
  /\ pc = "done"
  /\ outcome = ReturnedTo("null")

\* ------------------------------------------------------------------------
\* C19: generateVideo issues one job-creation call per invocation (none
\* when the credential is missing, exactly one once it is resolved); if
\* that call or any status re-fetch fails, the failure is classified and
\* raised at once: the failed call is not retried, no poll follows, and no
\* job state reaches the caller.
\* ------------------------------------------------------------------------
\* The job-creation call or a status re-fetch of generateVideo has failed.
VideoCallFailed == op = "video" /\ reply.t = "raw"

OneSubmitAndFailureRaised ==
  /\ op = "video" =>
       calls = (IF pc = "done" /\ MissingKeyRaised(outcome) /\ reply = NoValue
                THEN 0 ELSE 1)
  /\ VideoCallFailed =>
       /\ pc = "done"
       /\ outcome = RaisedTo(normalizeError(reply))
       /\ IsClassifiedError(outcome.error)
       /\ outcome.value = NoValue
       /\ sleeps = fetches

NothingAfterFailure ==
  VideoCallFailed => UNCHANGED << calls, fetches, sleeps, polls, outcome >>

C19_OneSubmitFailuresRaisedAtOnce ==
  []OneSubmitAndFailureRaised /\ [][NothingAfterFailure]_vars

C19_Witness ==
  /\ VideoCallFailed
  /\ calls = 1
  /\ fetches = 2
  /\ sleeps = 2
  /\ pc = "done"
  /\ Kind(outcome.error) = "ServerOverloaded"

\* The job-creation call itself fails.
C19_WitnessAtSubmit ==
  /\ VideoCallFailed
  /\ calls = 1
  /\ fetches = 0
  /\ sleeps = 0
  /\ pc = "done"
  /\ Kind(outcome.error) = "RateLimited"

\* ------------------------------------------------------------------------
\* C20: when generate succeeds but the returned text is not valid JSON,
\* generateMarketingCopy raises a classified error of kind Unknown or
\* InvalidRequest, never the raw parse exception, whatever the malformed
\* text contains.
\* ------------------------------------------------------------------------
\* generateMarketingCopy got a result from generate whose text JSON.parse
\* rejects.
MalformedTextReturned ==
  /\ op = "marketing"
  /\ pc = "done"
  /\ reply.t = "response"
  /\ parseResponse(reply).ok
  /\ reply.text \notin { << >>, << "{}" >>, ValidRecordText }

C20_MalformedJsonUnknownOrInvalid ==
  MalformedTextReturned =>
    /\ outcome.kind = "raised"
    /\ IsClassifiedError(outcome.error)
    /\ Kind(outcome.error) \in { "Unknown", "InvalidRequest" }

\* What the code guarantees: the parse exception never reaches the caller
\* raw; the kind of the classified error follows the keywords that the
\* text of the exception happens to contain.
MalformedJsonClassified ==
  MalformedTextReturned =>
    /\ outcome.kind = "raised"
    /\ IsClassifiedError(outcome.error)
    /\ Kind(outcome.error) \in { "Unknown", "RateLimited" }
    /\ Kind(outcome.error) = "RateLimited" => reply.text = << "quota" >>

\* ------------------------------------------------------------------------
\* C21: the output-token budget of the assembled request when a thinking
\* budget b >= 0 is or is not given.
\* ------------------------------------------------------------------------
\* The budget the design states.
StatedBudget(config) ==
  IF config.thinkingBudget.def
  THEN IF config.maxOutputTokens.def
       THEN Num(Max(config.maxOutputTokens.n, config.thinkingBudget.n + 1024))
       ELSE Num(config.thinkingBudget.n + 2048)
  ELSE config.maxOutputTokens

\* C21: with thinkingBudget = b the budget is b + 2048 if
\* maxOutputTokens is unset and max(maxOutputTokens, b + 1024) if it is set,
\* hence above b; without thinkingBudget it is maxOutputTokens unchanged.
C21_BudgetAsStated ==
  rpc = "assembled" =>
    /\ rs.maxOutputTokens = StatedBudget(rq.config)
    /\ rq.config.thinkingBudget.def => rs.maxOutputTokens.n > rq.config.thinkingBudget.n

C21_Witness ==
  /\ rpc = "assembled"
  /\ rq.config.thinkingBudget = Num(1000)
  /\ rq.config.maxOutputTokens = Num(500)
  /\ rs.maxOutputTokens = Num(2024)

\* The example of the design with maxOutputTokens unset.
C21_WitnessUnset ==
  /\ rpc = "assembled"
  /\ rq.config.thinkingBudget = Num(1000)
  /\ rq.config.maxOutputTokens = Undefined
  /\ rs.maxOutputTokens = Num(3048)

\* ------------------------------------------------------------------------
\* C22: a cancellation signalled while generate is suspended in a provider
\* call or a backoff sleep, or while generateVideo is suspended in a poll
\* sleep or a status re-fetch, aborts the operation: from then on no
\* attempt, sleep or poll is performed, and the operation does not return a
\* result.
\* ------------------------------------------------------------------------
NothingAfterCancel ==
  cancelled =>
    /\ UNCHANGED << calls, sleeps, fetches, polls, keyReads >>
    /\ outcome'.kind # "returned"

C22_CancellationAborts == [][NothingAfterCancel]_vars

\* What the code does: the operation goes on after the signal as if it had
\* not been given.
CancelledAndWentOn ==
  /\ cancelled
  /\ op = "generate"
  /\ calls = 2
  /\ sleeps = 1
  /\ pc = "done"
  /\ outcome.kind = "returned"

\* ------------------------------------------------------------------------
\* C23: concurrent generate calls are independent: under every
\* interleaving each call makes the attempts, sleeps the backoff delays and
\* ends with the outcome it would have if it ran alone against the same
\* provider outcomes.
\* ------------------------------------------------------------------------
\* The error a provider outcome makes an attempt fail with, if any.
AttemptError(r) ==
  IF r.t = "raw" THEN Thrown(normalizeError(r))
  ELSE IF parseResponse(r).ok THEN Returned(NoValue)
  ELSE Thrown(parseResponse(r).error)

\* A call running alone from attempt a on: its outcome and the number of
\* provider calls it makes (one more than the number of its sleeps when it
\* does not end early).
RECURSIVE Alone(_, _, _)
Alone(script, n, a) ==
  LET r == script[a + 1]
      e == AttemptError(r)
  IN IF ~e.ok /\ ~IsNonTransient(e.error) /\ a < n
     THEN Alone(script, n, a + 1)
     ELSE [ attempts |-> a + 1,
            outcome |-> IF e.ok THEN ReturnedTo(parseResponse(r).value)
                        ELSE RaisedTo(e.error) ]

C23_CallsIndependent ==
  cc # NoValue =>
    \A c \in Calls :
      LET alone == Alone(cs[c], cc[c].retries, 0)
      IN /\ cc[c].taken <= alone.attempts
         /\ Len(cc[c].delays) <= alone.attempts - 1
         /\ \A k \in 1..Len(cc[c].delays) :
              /\ cc[c].delays[k] >= (2 ^ (k - 1)) * 1000
              /\ cc[c].delays[k] < (2 ^ (k - 1)) * 1000 + 500
         /\ cc[c].pc = "done" =>
              /\ cc[c].taken = alone.attempts
              /\ Len(cc[c].delays) = alone.attempts - 1
              /\ cc[c].outcome = alone.outcome

\* Both calls are under way at once, and one has ended after a retry
\* while the other is still in its backoff sleep.
C23_Witness ==
  /\ cc # NoValue
  /\ cc["A"].pc = "done"
  /\ cc["A"].taken = 2
  /\ cc["A"].outcome.kind = "returned"
  /\ cc["B"].pc = "sleeping"
  /\ cc["B"].taken = 1
  /\ cbegun = 3

\* ------------------------------------------------------------------------
\* C24: in handleGenerateVariations the failure of any of the concurrent
\* calls cancels none of the others and sets no error: once all calls have
\* settled, variations is exactly the list of the images of the calls that
\* succeeded with an image, in prompt order, and isGeneratingVariations is
\* false.
\* ------------------------------------------------------------------------
\* The image the i-th call produced, if it succeeded with one.
ProducedImage(i) ==
  hres[i].kind = "returned" /\ hres[i].value # Null /\ hres[i].value.image # << >>

RECURSIVE ImagesInPromptOrder(_)
ImagesInPromptOrder(i) ==
  IF i = 0 THEN << >>
  ELSE IF ProducedImage(i)
  THEN Append(ImagesInPromptOrder(i - 1), hres[i].value.image)
  ELSE ImagesInPromptOrder(i - 1)

C24_VariationsBestEffort ==
  /\ (hpc = "awaiting" /\ \E i \in 1..Len(hres) : hres[i] # Pending) =>
       /\ hk.error = ""
       /\ hk.isGeneratingVariations
       /\ \A i \in 1..Len(hres) : hres[i].kind # "raised"
  /\ (hpc = "returned" /\ hres # << >>) =>
       /\ \A i \in 1..Len(hres) : hres[i] # Pending
       /\ hk.variations = ImagesInPromptOrder(Len(hres))
       /\ \A k \in 1..Len(hk.variations) :
            \E i \in 1..Len(hres) : ProducedImage(i) /\ hk.variations[k] = hres[i].value.image
       /\ hk.error = ""
       /\ ~hk.isGeneratingVariations

\* The first call failed, the second gave text only, the third an image.
C24_Witness ==
  /\ hpc = "returned"
  /\ hres # << >>
  /\ hres[1] = ReturnedTo(Null)
  /\ hres[2].value # Null /\ hres[2].value.image = << >>
  /\ ProducedImage(3)
  /\ hk.variations = << << "data:image/png;base64,", "MOCKUP_ALT_C" >> >>
  /\ ~hk.isGeneratingVariations

\* ------------------------------------------------------------------------
\* C25: for every error the core can raise, getErrorSuggestion applied to
\* its message returns a hint specific to the error's kind and never the
\* generic fallback: rate limit a wait-and-retry hint, safety block a
\* simplify-prompt hint, authentication failures the matching credential,
\* billing or region hint, server overload a retry-later hint.
\* ------------------------------------------------------------------------
\* The hints that fit an error of the core.
FittingHints(e) ==
  CASE Kind(e) = "RateLimited" -> { "API Capacity" }
    [] Kind(e) = "SafetyBlocked" ->
         { "Safety Filter", "Safety Policy (people)", "Safety Policy (content)",
           "Content Policy" }
    [] Kind(e) = "AuthenticationFailed" /\ e.message[1] = "BILLING_REQUIRED:" ->
         { "Account Config" }
    [] Kind(e) = "AuthenticationFailed" /\ e.message[1] = "GEO_RESTRICTION:" ->
         { "Geo-Restriction" }
    [] Kind(e) = "AuthenticationFailed" -> { "Authentication" }
    [] Kind(e) = "ServerOverloaded" -> { "System Status" }
    [] OTHER ->
         { "Storage Limit", "Format Error", "Rendering Security", "System Limitation",
           "Export Failed", "Safety Filter", "Safety Policy (people)",
           "Safety Policy (content)", "Content Policy", "API Capacity",
           "Geo-Restriction", "System Status", "Account Config", "Authentication",
           "Asset Error (size)", "Asset Error (resolution)", "Asset Error (format)",
           "Request Error", "Composition Error" }

C25_HintFitsKind ==
  sg # "" => sg # "Diagnostic" /\ sg \in FittingHints(sx.error)

\* What the code returns for the fixed messages of the core.
HintsOfFixedMessages ==
  sg # "" =>
    LET head == sx.error.message[1] IN
    /\ head \in { "Generation throughput exceeded", "MODEL_UNAVAILABLE:",
                  "SYSTEM_OVERLOAD:", "NETWORK_ERROR:", "INVALID_REQUEST:",
                  "API_KEY_MISSING:", "TIMEOUT:", "GENERATION_FAILED:",
                  "GENERATION_STOPPED:" } => sg = "Diagnostic"
    /\ head \in { "BILLING_REQUIRED:", "ACCESS_DENIED:" } => sg = "Account Config"
    /\ head = "INVALID_API_KEY:" => sg = "Authentication"
    /\ head = "GEO_RESTRICTION:" => sg = "Geo-Restriction"
    /\ head \in { "SAFETY_VIOLATION:", "PROMPT_BLOCKED:", "GENERATION_BLOCKED:",
                  "ZERO_CANDIDATES:" } => sg = "Safety Filter"
    /\ head = "COPYRIGHT_BLOCK:" => sg = "Content Policy"
    /\ head = "INVALID_IMAGE:" => sg = "Asset Error (size)"

\* The overload message of the classifier gets the generic fallback.
OverloadGetsFallback ==
  /\ sg = "Diagnostic"
  /\ Kind(sx.error) = "ServerOverloaded"

\* ------------------------------------------------------------------------
\* C26: a response carrying a prompt-level block makes parseResponse raise
\* SafetyBlocked whatever else the response contains: the block comes
\* before the zero-candidates check and before every finish reason, and
\* generate raises the error without retrying.
\* ------------------------------------------------------------------------
PromptBlocked(r) == r.t = "response" /\ r.blockReason # ""

PromptBlockError(r) == SafetyError(<< "PROMPT_BLOCKED:", r.blockReason >>)

C26_PromptBlockFirst ==
  /\ pc = "idle" =>
       \A r \in ParsedResponses :
         PromptBlocked(r) =>
           /\ parseResponse(r) = Thrown(PromptBlockError(r))
           /\ Kind(PromptBlockError(r)) = "SafetyBlocked"
  /\ pc = "idle" =>
       /\ \E r \in ParsedResponses : PromptBlocked(r) /\ r.candidates = << >>
       /\ \A fr \in FinishReasons :
            \E r \in ParsedResponses :
              PromptBlocked(r) /\ r.candidates # << >> /\ r.candidates[1].finishReason = fr
  /\ (op = "generate" /\ PromptBlocked(reply)) =>
       /\ pc = "done"
       /\ outcome = RaisedTo(PromptBlockError(reply))
       /\ RaisedAt(Len(failures))

C26_Witness ==
  /\ op = "generate"
  /\ retries = MaxRetriesBound
  /\ PromptBlocked(reply)
  /\ Len(failures) = 2
  /\ Kind(failures[1]) = "RateLimited"
  /\ failures[2] = PromptBlockError(reply)
  /\ calls = 2
  /\ sleeps = 1
  /\ pc = "done"
  /\ outcome.kind = "raised"

\* ------------------------------------------------------------------------
\* C27: in generate a backoff sleep occurs only between a failed retryable
\* attempt k (0-based) and attempt k+1, and lasts d milliseconds with
\* 2^k * 1000 <= d < 2^k * 1000 + 500, so that delays strictly increase
\* with k; there is no sleep before the first attempt, none after a
\* success, none after a non-retryable failure and none after the final
\* failed attempt.
\* ------------------------------------------------------------------------
InGenerate == op \in { "generate", "marketing" }

\* The failed attempts (1-based) that were retryable and not the final one.
SleptAfter ==
  { i \in 1..Len(failures) : ~IsNonTransient(failures[i]) /\ i - 1 < retries }

BackoffSleepInProgress ==
  /\ pc = "sleeping"
  /\ Len(failures) = attempt + 1
  /\ ~IsNonTransient(failures[attempt + 1])
  /\ attempt < retries
  /\ delay >= (2 ^ attempt) * 1000
  /\ delay < (2 ^ attempt) * 1000 + 500

SleepsOnlyBetweenAttempts ==
  InGenerate =>
    /\ (delay # 0) <=> (pc = "sleeping")
    /\ pc = "sleeping" => BackoffSleepInProgress
    /\ failures = << >> => sleeps = 0
    /\ sleeps = Cardinality(SleptAfter)
    /\ \A k, l \in 0..MaxRetriesBound : \A j, m \in Jitters :
         k < l => Backoff(k, j) < Backoff(l, m)

SleepStep ==
  InGenerate =>
    /\ sleeps' # sleeps =>
         /\ pc \in { "attempt", "calling" }
         /\ pc' = "sleeping"
         /\ sleeps' = sleeps + 1
         /\ failures' # failures
         /\ attempt' = attempt
    /\ pc = "sleeping" =>
         ( pc' = "sleeping" \/ ( pc' = "attempt" /\ attempt' = attempt + 1 ) )
    /\ pc' = "done" => ( sleeps' = sleeps /\ delay' = 0 )

C27_BackoffBetweenAttempts ==
  []SleepsOnlyBetweenAttempts /\ [][SleepStep]_vars

C27_Witness ==
  /\ op = "generate"
  /\ retries = MaxRetriesBound
  /\ pc = "sleeping"
  /\ attempt = 2
  /\ sleeps = 3
  /\ delay = Backoff(2, 499)
  /\ Kind(failures[1]) = "RateLimited"
  /\ Kind(failures[3]) = "ServerOverloaded"

C27_WitnessNoSleepAtEnd ==
  /\ op = "generate"
  /\ retries = 1
  /\ pc = "done"
  /\ Len(failures) = 2
  /\ ~IsNonTransient(failures[2])
  /\ sleeps = 1
  /\ delay = 0

\* ------------------------------------------------------------------------
\* C28: generate resolves the credential anew at the start of every attempt,
\* before that attempt's provider call, and never reuses the value an
\* earlier attempt read: the number of credential reads equals the number
\* of attempts, and when the credential changes or disappears between
\* attempt k and attempt k+1, attempt k+1 uses the new value, or raises
\* AuthenticationFailed without a provider call.
\* ------------------------------------------------------------------------
\* Attempts of generate begun so far: the failed ones, the successful one
\* and the one whose provider call is in flight.
AttemptsBegun ==
  Len(failures) + (IF pc = "calling" THEN 1 ELSE 0)
                + (IF pc = "done" /\ reply.t = "response" /\ parseResponse(reply).ok
                   THEN 1 ELSE 0)

ReadsEqualAttempts ==
  InGenerate =>
    /\ keyReads = AttemptsBegun
    /\ pc = "calling" => ( apiKey # "" /\ calls = keyReads - Cardinality(
         { i \in 1..Len(failures) :
             failures[i] = AuthenticationError(<< "API_KEY_MISSING:" >>) }) )

FreshReadStep ==
  ( InGenerate /\ pc = "attempt" /\ LoopContinues(attempt, retries) ) =>
    /\ keyReads' = keyReads + 1
    /\ env # "" => /\ pc' = "calling"
                   /\ calls' = calls + 1
                   /\ apiKey' = env
    /\ env = "" => /\ calls' = calls
                   /\ apiKey' = apiKey
                   /\ pc' = "done"
                   /\ failures' = Append(failures, AuthenticationError(<< "API_KEY_MISSING:" >>))
                   /\ outcome'.kind = "raised"
                   /\ Kind(outcome'.error) = "AuthenticationFailed"

ReadOnlyAtAttempt ==
  ( InGenerate /\ ~( pc = "attempt" /\ LoopContinues(attempt, retries) ) ) =>
    UNCHANGED << keyReads, apiKey, calls >>

C28_CredentialFreshPerAttempt ==
  []ReadsEqualAttempts /\ [][FreshReadStep /\ ReadOnlyAtAttempt]_vars

C28_Witness ==
  /\ op = "generate"
  /\ retries = MaxRetriesBound
  /\ pc = "done"
  /\ Len(failures) = 2
  /\ Kind(failures[1]) = "RateLimited"
  /\ failures[2] = AuthenticationError(<< "API_KEY_MISSING:" >>)
  /\ apiKey = "key-A"
  /\ env = ""
  /\ keyReads = 2
  /\ calls = 1
  /\ MissingKeyRaised(outcome)

C28_WitnessRotated ==
  /\ op = "generate"
  /\ pc = "attempt"
  /\ attempt = 1
  /\ keyReads = 1
  /\ apiKey = "key-A"
  /\ env = "key-B"

\* ------------------------------------------------------------------------
\* C29: the executor's payload for n supplied images has exactly n
\* inline-data parts, one per supplied image in the supplied order, then
\* exactly one text part as the last part; the text part is the prompt, or
\* "Analyze input assets." when the prompt is empty, so it is never empty;
\* and the executor issues exactly one provider call with this payload.
\* An entry of the images array that is empty is no supplied image.
\* ------------------------------------------------------------------------
SuppliedImages(images) == SelectSeq(images, LAMBDA img : img # "")

C29_PayloadParts ==
  rpc = "assembled" =>
    LET supplied == SuppliedImages(rq.images)
        n == Len(supplied)
        parts == rs.parts
    IN /\ Len(parts) = n + 1
       /\ \A i \in 1..n :
            /\ parts[i].kind = "inlineData"
            /\ parts[i].of = supplied[i]
       /\ parts[n + 1].kind = "text"
       /\ parts[n + 1].text # ""
       /\ parts[n + 1].text =
            (IF rq.prompt = "" THEN "Analyze input assets." ELSE rq.prompt)
       /\ \A i \in 1..(n + 1) : parts[i].kind = "text" => i = n + 1
       /\ calls = 1

C29_Witness ==
  /\ rpc = "assembled"
  /\ rq.prompt = ""
  /\ rq.images = << "data:image/jpeg;base64,BBBB", "data:image/png;base64,AAAA" >>
  /\ Len(rs.parts) = 3
  /\ rs.parts[1] = InlineDataPart("data:image/jpeg;base64,BBBB")
  /\ rs.parts[2] = InlineDataPart("data:image/png;base64,AAAA")
  /\ rs.parts[3] = TextOnlyPart("Analyze input assets.")
  /\ calls = 1

C29_WitnessEmptyEntry ==
  /\ rpc = "assembled"
  /\ rq.images = << "", "data:image/png;base64,AAAA" >>
  /\ Len(rs.parts) = 2
  /\ rs.parts[1] = InlineDataPart("data:image/png;base64,AAAA")

\* ------------------------------------------------------------------------
\* C30: in the assembled request the image sizing and aspect parameters
\* are present if and only if the selected model is an image-synthesis
\* model (never for a text-reasoning or a video model), the size tier only
\* for the higher-quality image model, and the web-search tool is present
\* if and only if useSearch is true.
\* ------------------------------------------------------------------------
ImageSynthesisModels == { ImageModel, ProImageModel }

C30_ImageConfigAndSearch ==
  rpc = "assembled" =>
    /\ rs.imageConfig.def <=> rq.config.model \in ImageSynthesisModels
    /\ rs.imageConfig.def => rs.imageConfig.aspectRatio # ""
    /\ (rs.imageConfig.def /\ rs.imageConfig.imageSize # "")
         <=> rq.config.model = ProImageModel
    /\ ~rs.imageConfig.def =>
         ( rs.imageConfig.aspectRatio = "" /\ rs.imageConfig.imageSize = "" )
    /\ (rs.tools # << >>) <=> rq.config.useSearch
    /\ rq.config.useSearch => rs.tools = << "googleSearch" >>

C30_Witness ==
  /\ rpc = "assembled"
  /\ rq.config.model = ProImageModel
  /\ rq.config.useSearch
  /\ rq.config.imageSize = ""
  /\ rs.imageConfig.def
  /\ rs.imageConfig.imageSize = "1K"
  /\ rs.imageConfig.aspectRatio = "1:1"
  /\ rs.tools = << "googleSearch" >>

C30_WitnessTextModel ==
  /\ rpc = "assembled"
  /\ rq.config.model \notin ImageSynthesisModels
  /\ rq.config.imageSize = "4K"
  /\ ~rs.imageConfig.def
  /\ rs.tools = << >>

\* ------------------------------------------------------------------------
\* C31: for a response that passes validation, the result's image is the
\* PNG data URI of the first content part that carries inline image bytes,
\* and is absent exactly when no part carries inline image bytes; in that
\* text-only case parseResponse returns the result and raises no error.
\* ------------------------------------------------------------------------
PassesValidation(r) ==
  /\ r.blockReason = ""
  /\ r.candidates # << >>
  /\ ~IsAbnormalFinish(r.candidates[1].finishReason)

CarriesImageBytes(part) == part.inline /\ part.data # ""

\* The parts of the first candidate that carry inline image bytes.
ImageBearing(r) ==
  { i \in 1..Len(r.candidates[1].parts) : CarriesImageBytes(r.candidates[1].parts[i]) }

FirstImageBearing(r) ==
  CHOOSE i \in ImageBearing(r) : \A j \in ImageBearing(r) : i <= j

C31_ImageOfFirstImagePart ==
  (ppc = "parsed" /\ PassesValidation(px)) =>
    /\ pr.ok
    /\ (pr.value.image = << >>) <=> (ImageBearing(px) = { })
    /\ ImageBearing(px) # { } =>
         pr.value.image =
           << "data:image/png;base64,",
              px.candidates[1].parts[FirstImageBearing(px)].data >>

\* What the code does: the image is taken from the first part that has an
\* inlineData object, and only when that part's data is not empty.
ImageOfFirstInlinePart ==
  (ppc = "parsed" /\ PassesValidation(px)) =>
    LET parts == px.candidates[1].parts
        ip == FindInlinePart(parts)
    IN /\ pr.ok
       /\ (ip = 0 \/ parts[ip].data = "") => pr.value.image = << >>
       /\ (ip # 0 /\ parts[ip].data # "") =>
            pr.value.image = << "data:image/png;base64,", parts[ip].data >>
       /\ ImageBearing(px) = { } => pr.value.image = << >>

\* A part with an empty inlineData hides the image bytes of the part after.
ImageBytesPassedOver ==
  /\ ppc = "parsed"
  /\ PassesValidation(px)
  /\ px.candidates[1].parts = << ImagePart(""), ImagePart("iVBOR") >>
  /\ pr.ok
  /\ pr.value.image = << >>

\* ------------------------------------------------------------------------
\* C32: when the generate call inside generateMarketingCopy raises a
\* classified error, generateMarketingCopy raises that same error unchanged
\* (same kind, message, code), and it adds no attempts of its own: the
\* provider calls of one generateMarketingCopy call are those of its single
\* generate call, at most DEFAULT_RETRIES + 1.
\* ------------------------------------------------------------------------
\* The step on which the inner generate call raises: its catch block
\* recorded a failure and the call ended.
InnerGenerateRaises ==
  /\ op = "marketing"
  /\ pc # "done"
  /\ pc' = "done"
  /\ failures' # failures

MarketingRaisesSame ==
  InnerGenerateRaises =>
    /\ IsClassifiedError(lastError')
    /\ lastError' = failures'[Len(failures')]
    /\ outcome' = RaisedTo(lastError')
    /\ Kind(outcome'.error) = Kind(lastError')

MarketingAddsNoAttempts ==
  op = "marketing" =>
    /\ retries = DEFAULT_RETRIES
    /\ attempt <= DEFAULT_RETRIES + 1
    /\ calls <= DEFAULT_RETRIES + 1
    /\ keyReads <= DEFAULT_RETRIES + 1
    /\ keyReads = AttemptsBegun
    /\ calls <= keyReads

MarketingOver ==
  ( op = "marketing" /\ pc = "done" ) => UNCHANGED << calls, keyReads, sleeps, outcome >>

C32_MarketingPassesErrorOn ==
  []MarketingAddsNoAttempts /\ [][MarketingRaisesSame /\ MarketingOver]_vars

C32_Witness ==
  /\ op = "marketing"
  /\ pc = "done"
  /\ Len(failures) = DEFAULT_RETRIES + 1
  /\ calls = DEFAULT_RETRIES + 1
  /\ Kind(failures[DEFAULT_RETRIES + 1]) = "RateLimited"
  /\ outcome = RaisedTo(failures[DEFAULT_RETRIES + 1])

C32_WitnessAtOnce ==
  /\ op = "marketing"
  /\ pc = "done"
  /\ Len(failures) = 1
  /\ calls = 1
  /\ Kind(failures[1]) = "SafetyBlocked"
  /\ outcome = RaisedTo(failures[1])

\* ------------------------------------------------------------------------
\* C33: every result returned by generate has a finish reason that is
\* STOP, MAX_TOKENS or absent: no result is returned for a response whose
\* first candidate's finish reason is any other value, and none together
\* with a prompt-level block.
\* ------------------------------------------------------------------------
NormalFinishReasons == { "", "STOP", "MAX_TOKENS" }

C33_ReturnedOnlyOnNormalFinish ==
  /\ pc = "idle" =>
       \A r \in ParsedResponses :
         parseResponse(r).ok =>
           /\ r.blockReason = ""
           /\ r.candidates # << >>
           /\ r.candidates[1].finishReason \in NormalFinishReasons
           /\ parseResponse(r).value.finishReason = r.candidates[1].finishReason
  /\ (op = "generate" /\ outcome.kind = "returned") =>
       /\ pc = "done"
       /\ outcome.value.finishReason \in NormalFinishReasons
       /\ reply.t = "response"
       /\ reply.blockReason = ""
       /\ reply.candidates # << >>
       /\ reply.candidates[1].finishReason = outcome.value.finishReason
  /\ (op = "generate" /\ reply.t = "response"
        /\ ( reply.blockReason # ""
             \/ ( reply.candidates # << >>
                  /\ reply.candidates[1].finishReason \notin NormalFinishReasons ) ))
       => outcome.kind # "returned"

C33_Witness ==
  /\ op = "generate"
  /\ pc = "done"
  /\ outcome.kind = "returned"
  /\ outcome.value.finishReason = "MAX_TOKENS"
  /\ Len(failures) = 1
  /\ Kind(failures[1]) = "Other"
  /\ failures[1].message[1] = "GENERATION_STOPPED:"

\* ------------------------------------------------------------------------
\* C34: every record returned by generateMarketingCopy has the fixed shape
\* title, description, tags: in particular, when generate succeeds with an
\* absent or empty text, generateMarketingCopy does not return a record
\* lacking these fields.
\* ------------------------------------------------------------------------
MarketingReturned == op = "marketing" /\ pc = "done" /\ outcome.kind = "returned"

C34_RecordHasFixedShape ==
  MarketingReturned => outcome.value = [ shape |-> "record" ]

\* What the code does: the text of the response decides, and an absent text
\* is parsed as "{}", the object without fields.
RecordShapeFollowsText ==
  MarketingReturned =>
    /\ reply.t = "response"
    /\ reply.text = ValidRecordText => outcome.value = [ shape |-> "record" ]
    /\ reply.text = << >> => outcome.value = [ shape |-> "empty" ]
    /\ reply.text \in { << >>, ValidRecordText }

EmptyRecordReturned ==
  /\ MarketingReturned
  /\ reply.text = << >>
  /\ outcome.value = [ shape |-> "empty" ]
  /\ failures = << >>

\* ------------------------------------------------------------------------
\* C35: generateVideo resolves the credential exactly once per call, before
\* the submission: the same value serves the submission, every status
\* re-fetch and the returned URI, even if the stored credential changes
\* during the poll loop; the returned string is the job's result URI with
\* that credential appended.
\* ------------------------------------------------------------------------
VideoKeyReadOnce ==
  op = "video" =>
    /\ keyReads = 1
    /\ calls <= 1
    /\ calls = 1 <=> apiKey # ""
    /\ fetches > 0 => calls = 1
    /\ (pc = "done" /\ outcome.kind = "returned" /\ outcome.value # "null") =>
         /\ apiKey # ""
         /\ reply.t = "operation"
         /\ outcome.value = << reply.uri, "&key=", apiKey >>

VideoKeyStep ==
  /\ ( op # "video" /\ op' = "video" ) =>
       /\ keyReads' = keyReads + 1
       /\ fetches' = fetches
       /\ env # "" => ( apiKey' = env /\ calls' = calls + 1 /\ pc' = "vsubmitting" )
       /\ env = "" => ( apiKey' = apiKey /\ calls' = calls )
  /\ op = "video" => UNCHANGED << apiKey, keyReads, calls >>

C35_VideoKeyResolvedOnce ==
  []VideoKeyReadOnce /\ [][VideoKeyStep]_vars

C35_Witness ==
  /\ op = "video"
  /\ pc = "done"
  /\ keyReads = 1
  /\ fetches = 2
  /\ apiKey = "key-A"
  /\ env = "key-B"
  /\ outcome.kind = "returned"
  /\ outcome.value # "null"
  /\ outcome.value = << "https://video", "&key=", "key-A" >>

\* ------------------------------------------------------------------------
\* C36: in the merch controller each busy flag (loading,
\* isGeneratingVariations, isVideoGenerating, isMarketingGenerating) is
\* true exactly while a call of its handler is in flight: at most one call
\* per handler is in flight at any time, even when the handler is invoked
\* again before the flag's update is rendered, and after the call settles
\* the flag is false again.
\* ------------------------------------------------------------------------
C36_BusyFlagExactlyWhileInFlight ==
  ms # NoValue =>
    \A h \in Handlers :
      /\ InFlight(h) <= 1
      /\ FlagOf(ms, h) <=> InFlight(h) = 1

\* The part that the code keeps: with no call in flight every flag is false.
FlagsFalseAtRest ==
  ( ms # NoValue /\ mf = << >> ) => \A h \in Handlers : ~FlagOf(ms, h)

\* handleGenerate twice from the same render: both calls pass the guard.
TwoGenerateCallsInFlight ==
  /\ ms # NoValue
  /\ InFlight("generate") = 2
  /\ ~mr.loading

\* The first of two calls has settled: loading is false, one call goes on.
FlagFalseWhileInFlight ==
  /\ ms # NoValue
  /\ InFlight("generate") = 1
  /\ \A i \in 1..Len(mf) : mf[i].phase = "calling"
  /\ ~ms.loading

\* ------------------------------------------------------------------------
\* C37: in the merch controller, after the logo is replaced, cleared
\* (clearLogo) or the session reset (onReset), resultImage, variations,
\* videoUrl and marketingData are empty and stay empty until a generation
\* started after that event completes: a call that was in flight when the
\* logo changed never writes its result into the state afterwards.
\* ------------------------------------------------------------------------
ResultsEmpty(s) ==
  /\ s.resultImage = "null"
  /\ s.variations = << >>
  /\ s.videoUrl = "null"
  /\ s.marketingData = "null"

C37_ResultsStayClearedAfterLogoChange ==
  ( ms # NoValue /\ mg.cleared ) => ResultsEmpty(ms)

\* The part that the code keeps: the event itself empties the results.
LogoChangeClears ==
  [][ ( ms # NoValue /\ ms'.logo # ms.logo ) => ResultsEmpty(ms') ]_vars

\* The call started before clearLogo has written its image: a result is
\* shown although there is no logo and nothing is in flight.
StaleResultWritten ==
  /\ ms # NoValue
  /\ mg.cleared
  /\ ms.logo = "null"
  /\ ms.resultImage = "img"
  /\ mf = << >>

\* ------------------------------------------------------------------------
\* C38: after onReset has run and all resulting state updates and effects
\* have settled, no session blob is stored under the session key: the
\* removal of the key by onReset is not undone by the persistence effect.
\* ------------------------------------------------------------------------
ResetSettled ==
  /\ ms # NoValue
  /\ mg.reset
  /\ ~mdirty
  /\ mr = Closure(ms)

C38_ResetLeavesNoSession == ResetSettled => mstore = NoValue

\* What the code does: the render after onReset runs the persistence
\* effect, which stores the emptied session again.
ResetSessionRewritten ==
  ResetSettled => mstore = [ logo |-> "null", productId |-> "p0" ]

SessionStoredAfterReset ==
  /\ ResetSettled
  /\ mf = << >>
  /\ mstore = [ logo |-> "null", productId |-> "p0" ]

\* ------------------------------------------------------------------------
\* C39: in the backend fetch wrapper a non-OK HTTP response is mapped by
\* handleApiError to a typed error by status (401 and 403 to
\* AuthenticationError, 429 to RateLimitError, 400 with type
\* SAFETY_VIOLATION to SafetyError, otherwise ApiError with the status),
\* and that typed error reaches the caller of api.generate / generateVideo
\* / generateMarketingCopy / publish: the call rejects with it and does not
\* resolve with a value.
\* ------------------------------------------------------------------------
NonOkReply == fx # NoValue /\ fx.reply.t = "http" /\ ~ResponseOk(fx.reply)

TypedErrorOf(r) == handleApiError(r.status, ErrorBody(r))

C39_TypedErrorReachesCaller ==
  ( NonOkReply /\ fpc = "done" ) => fo = Rejected(TypedErrorOf(fx.reply))

\* The mapping by status is as stated.
MappedByStatus ==
  NonOkReply =>
    LET r == fx.reply
        e == TypedErrorOf(r)
    IN /\ r.status \in { 401, 403 } <=> e.cls = "AuthenticationError"
       /\ r.status = 429 <=> e.cls = "RateLimitError"
       /\ ( r.status = 400 /\ r.parses /\ r.type = "SAFETY_VIOLATION" )
            <=> e.cls = "SafetyError"
       /\ e.cls = "ApiError" => e.statusCode = r.status
       /\ fpc = "catch" => fo = Caught(e)

\* What the code does: the catch clause of apiFetch receives the typed
\* error and answers with the mock, so the caller gets the mock's value, or
\* the mock's own error for a generate request whose text includes "fail".
NonOkAnsweredByMock ==
  ( NonOkReply /\ fpc = "done" ) => fo = MockApi(fx.endpoint, fx.bodyHasFail)

MockValueForRateLimit ==
  /\ NonOkReply
  /\ fx.reply.status = 429
  /\ fx.endpoint = "publish"
  /\ fpc = "done"
  /\ fo = Resolved([ from |-> "mock", endpoint |-> "publish" ])

====
